---- MODULE Spec2Model ----
(***************************************************************************)
(* The Connect6 game record (class Record of the game module) and its      *)
(* binary codec, as a state machine: one record `rec` driven by the        *)
(* operations the application calls on it, and `last`, the most recent     *)
(* call with its argument and its result.  The row scans (of the record    *)
(* and of the server's board) and the codec of a single move are applied   *)
(* to inputs drawn from bounded sets.                                      *)
(***************************************************************************)
EXTENDS Integers, Sequences, FiniteSets, TLC

VARIABLES rec, last

vars == <<rec, last>>

(***************************************************************************)
(* Bounds of the model.                                                    *)
(***************************************************************************)
\* Where moves are also undone, redone and jumped over, makeMove is called
\* only while the cursor is below this bound.
MaxMoves == 6
\* Where moves are only made, makeMove is called only while the cursor is
\* below this bound (a row of six takes six moves).
MaxSaved == 7
\* jump is called with the indices 0..MaxJump.
MaxJump == 3
\* The buffers decoded as one move have up to MaxBufLen bytes, each of
\* 0..MaxByte or a byte with the continuation bit.
MaxBufLen == 3
MaxByte == 8
\* The moves encoded have their coordinates among -MaxCoord, -1, 0, 1 and
\* MaxCoord (from MaxCoord = 6 on the far corner takes two bytes).
MaxCoord == 6
\* Where records are also read from buffers, makeMove is called only while
\* the cursor is below this bound.
MaxPlayed == 2
\* The boards that are scanned hold rows of MaxRun - 2 .. MaxRun stones.
MaxRun == 7

\* The longest record sent without its future moves.
MaxSent == 4

\* The cursor prefixes of the buffers read are 0..MaxCursor.
MaxCursor == 4

\* The points indexed have coordinates -MaxPoint..MaxPoint, and the indices
\* turned into points are 0..MaxIndex.
MaxPoint == 7
MaxIndex == 255

\* Of two records, moves are made on one while its cursor is below this
\* bound.
MaxShared == 2

\* The buffers decoded as messages have at most MaxMessageLen bytes, the first
\* of them 0..MaxKindByte.
MaxMessageLen == 4
MaxKindByte == 11

\* Moves that list a position twice are made while the cursor is below this
\* bound.
MaxPair == 3

\* The longest past of a record saved with its future moves.
MaxKept == 4

\* The room of a client's send channel and the longest past of the hub's
\* board.
SendCap == 1
MaxHubMoves == 3

\* The longest past of the hub's board in a game played to a win.
MaxGameMoves == 13

\* The longest past of the record shown by the game view.
MaxViewMoves == 3

\* The application asks for a confirmation only while fewer than MaxPending
\* requests are pending, and its record grows only while the cursor is
\* below MaxAppMoves.
MaxPending == 1
MaxAppMoves == 1

\* The connection and the hash of the page raise their events only while
\* fewer than MaxOpen dialogs are open.
MaxOpen == 2

(***************************************************************************)
(* Axis, Point, Stone.                                                     *)
(***************************************************************************)
Horizontal == 0
Diagonal == 1
Vertical == 2
AntiDiagonal == 3

VALUES == <<Horizontal, Diagonal, Vertical, AntiDiagonal>>

unitVector(axis) == (<<<<1, 0>>, <<1, 1>>, <<0, 1>>, <<1, -1>>>>)[axis + 1]

zigzagEncode(n) == IF n >= 0 THEN 2 * n ELSE -2 * n - 1

zigzagDecode(n) == IF n % 2 = 0 THEN n \div 2 ELSE -((n + 1) \div 2)

elegantPair(x, y) == IF x < y THEN y * y + x ELSE x * x + x + y

RECURSIVE FloorSqrtIn(_, _, _)
\* The greatest s of lo..hi with s^2 <= z, found by halving the interval.
FloorSqrtIn(z, lo, hi) ==
  IF lo >= hi THEN lo
  ELSE LET mid == (lo + hi + 1) \div 2
       IN IF mid * mid <= z THEN FloorSqrtIn(z, mid, hi)
          ELSE FloorSqrtIn(z, lo, mid - 1)

\* Math.floor(Math.sqrt(z)), for z below 2^31 (whose root is below 46341).
FloorSqrt(z) == FloorSqrtIn(z, 0, IF z < 46340 THEN z ELSE 46340)

\* A slip of the comparison: t <= s for t < s.
elegantUnpairLeq(z) ==
  LET s == FloorSqrt(z)
      t == z - s * s
  IN IF t <= s THEN <<t, s>> ELSE <<s, t - s>>

elegantUnpair(z) ==
  LET s == FloorSqrt(z)
      t == z - s * s
  IN IF t < s THEN <<t, s>> ELSE <<s, t - s>>

\* A point is the pair <<x, y>>.
index(p) == elegantPair(zigzagEncode(p[1]), zigzagEncode(p[2]))

fromIndex(i) ==
  LET xy == elegantUnpair(i)
  IN <<zigzagDecode(xy[1]), zigzagDecode(xy[2])>>

adjacent(p, axis, forward) ==
  LET d == unitVector(axis)
  IN IF forward THEN <<p[1] + d[1], p[2] + d[2]>>
     ELSE <<p[1] - d[1], p[2] - d[2]>>

Black == 1
White == 2
\* `undefined` where a stone is expected (no map entry).
NoStone == 0

opposite(stone) == 3 - stone

(***************************************************************************)
(* Moves.  A move is a record [kind, pos, stone]: pos is the sequence of   *)
(* positions of a Stone move, the single claimed position of a Win move    *)
(* and empty otherwise; stone is the stone of a Resign move.               *)
(***************************************************************************)
MOVE_STONE_OFFSET == 7

KindStone == -1
KindPass == 0
KindWin == 1
KindDraw == 2
KindResign == 3

StoneMove(ps) == [kind |-> KindStone, pos |-> ps, stone |-> NoStone]
PassMove == [kind |-> KindPass, pos |-> <<>>, stone |-> NoStone]
WinMove(p) == [kind |-> KindWin, pos |-> <<p>>, stone |-> NoStone]
DrawMove == [kind |-> KindDraw, pos |-> <<>>, stone |-> NoStone]
ResignMove(s) == [kind |-> KindResign, pos |-> <<>>, stone |-> s]
\* `undefined` where a move is expected.
NoMove == [kind |-> -2, pos |-> <<>>, stone |-> NoStone]

\* A slip of isEnding: only a claimed win ends the game.
isEndingWinOnly(move) == move.kind = KindWin

\* A slip of isEnding: the Draw is left out of the test.
isEndingNoDraw(move) == move.kind = KindWin \/ move.kind = KindResign

isEnding(move) == move.kind = KindWin \/ move.kind = KindDraw \/ move.kind = KindResign

(***************************************************************************)
(* The record: map (position index -> stone), mov (all moves), idx (the    *)
(* current move index).                                                    *)
(***************************************************************************)
EmptyMap == [i \in {} |-> Black]

EmptyRecord == [map |-> EmptyMap, mov |-> <<>>, idx |-> 0]

MapSet(map, k, v) == [i \in DOMAIN map \cup {k} |-> IF i = k THEN v ELSE map[i]]

MapDelete(map, k) == [i \in DOMAIN map \ {k} |-> map[i]]

RECURSIVE MapSetAll(_, _, _)
\* for (const pos of ps) map.set(pos.index(), stone)
MapSetAll(map, ps, stone) ==
  IF ps = <<>> THEN map
  ELSE MapSetAll(MapSet(map, index(Head(ps)), stone), Tail(ps), stone)

RECURSIVE MapDeleteAll(_, _)
\* for (const pos of ps) map.delete(pos.index())
MapDeleteAll(map, ps) ==
  IF ps = <<>> THEN map
  ELSE MapDeleteAll(MapDelete(map, index(Head(ps))), Tail(ps))

prevMove(r) == IF r.idx > 0 THEN r.mov[r.idx] ELSE NoMove

nextMove(r) == IF r.idx < Len(r.mov) THEN r.mov[r.idx + 1] ELSE NoMove

hasPast(r) == r.idx > 0

hasFuture(r) == r.idx < Len(r.mov)

\* A slip of isEnded: the next move is tested, not the previous one.
isEndedByNext(r) ==
  LET next == nextMove(r)
  IN next # NoMove /\ isEnding(next)

isEnded(r) ==
  LET prev == prevMove(r)
  IN prev # NoMove /\ isEnding(prev)

turnAt(i) == IF i % 2 = 0 THEN Black ELSE White

\* A slip of turn: the number of moves is taken for the cursor.
turnByTotal(r) == turnAt(Len(r.mov))

turn(r) == turnAt(r.idx)

stoneAt(r, p) == IF index(p) \in DOMAIN r.map THEN r.map[index(p)] ELSE NoStone

RECURSIVE scanAnyStone(_, _, _, _, _)
\* A slip of the walk: it goes on over any stone, whatever its colour.
scanAnyStone(r, stone, axis, cur, forward) ==
  LET next == adjacent(cur, axis, forward)
  IN IF stoneAt(r, next) # NoStone
     THEN LET rest == scanAnyStone(r, stone, axis, next, forward)
          IN [cur |-> rest.cur, n |-> rest.n + 1]
     ELSE [cur |-> cur, n |-> 0]

RECURSIVE scan(_, _, _, _, _)
\* The inner closure of scanRow: walks from cur while the next point holds
\* `stone`; returns the last point reached and the number of steps taken.
scan(r, stone, axis, cur, forward) ==
  LET next == adjacent(cur, axis, forward)
  IN IF stoneAt(r, next) = stone
     THEN LET rest == scan(r, stone, axis, next, forward)
          IN [cur |-> rest.cur, n |-> rest.n + 1]
     ELSE [cur |-> cur, n |-> 0]

scanRow(r, p, axis) ==
  LET stone == stoneAt(r, p)
  IN IF stone = NoStone THEN [start |-> p, end |-> p, len |-> 0]
     ELSE LET s == scan(r, stone, axis, p, FALSE)
              e == scan(r, stone, axis, p, TRUE)
          IN [start |-> s.cur, end |-> e.cur, len |-> 1 + s.n + e.n]

\* No row is the record with len 0.
NoRow == [start |-> <<0, 0>>, end |-> <<0, 0>>, len |-> 0]

RECURSIVE findWinRowFromFive(_, _, _)
\* A slip of the threshold: a run of five is taken for a win.
findWinRowFromFive(r, p, k) ==
  IF k > Len(VALUES) THEN NoRow
  ELSE LET row == scanRow(r, p, VALUES[k])
       IN IF row.len >= 5 THEN row ELSE findWinRowFromFive(r, p, k + 1)

RECURSIVE findWinRowFrom(_, _, _)
findWinRowFrom(r, p, k) ==
  IF k > Len(VALUES) THEN NoRow
  ELSE LET row == scanRow(r, p, VALUES[k])
       IN IF row.len >= 6 THEN row ELSE findWinRowFrom(r, p, k + 1)

findWinRow(r, p) ==
  IF stoneAt(r, p) = NoStone THEN NoRow ELSE findWinRowFrom(r, p, 1)

\* The call of findWinRow: [row, found]; found is FALSE for `undefined`.
findWinRowCall(r, p) ==
  LET row == findWinRow(r, p)
  IN [row |-> [start |-> row.start, end |-> row.end], found |-> row # NoRow]

\* A slip of the opening check: the first move may have two positions.
stoneRejectedNoOpening(r, move) ==
  \E k \in 1..Len(move.pos) : index(move.pos[k]) \in DOMAIN r.map

\* A slip of the opening check: it looks at the move list, not the cursor.
stoneRejectedEmptyOnly(r, move) ==
  \/ r.mov = <<>> /\ Len(move.pos) # 1
  \/ \E k \in 1..Len(move.pos) : index(move.pos[k]) \in DOMAIN r.map

\* A slip of the occupancy check: only the first position is looked up.
stoneRejectedFirstOnly(r, move) ==
  \/ r.idx = 0 /\ Len(move.pos) # 1
  \/ index(move.pos[1]) \in DOMAIN r.map

\* The Stone branch's early returns: a first move that is not one stone, or
\* a target position that is already occupied.
stoneRejected(r, move) ==
  \/ r.idx = 0 /\ Len(move.pos) # 1
  \/ \E k \in 1..Len(move.pos) : index(move.pos[k]) \in DOMAIN r.map

\* A slip of the tail of makeMove: the future moves are not cut off.
pushMoveNoTruncate(r, move, map) ==
  [map |-> map, mov |-> Append(r.mov, move), idx |-> r.idx + 1]

\* The tail of makeMove: mov.length = idx; mov.push(move); idx++.
pushMove(r, move, map) ==
  [map |-> map, mov |-> Append(SubSeq(r.mov, 1, r.idx), move), idx |-> r.idx + 1]

\* Returns [ok, rec]: the return value and the record after the call.
makeMove(r, move) ==
  IF isEnded(r) THEN [ok |-> FALSE, rec |-> r]
  ELSE IF move.kind = KindStone
  THEN IF stoneRejected(r, move) THEN [ok |-> FALSE, rec |-> r]
       ELSE [ok |-> TRUE, rec |-> pushMove(r, move, MapSetAll(r.map, move.pos, turn(r)))]
  ELSE IF move.kind = KindWin /\ findWinRow(r, move.pos[1]) = NoRow
  THEN [ok |-> FALSE, rec |-> r]
  ELSE [ok |-> TRUE, rec |-> pushMove(r, move, r.map)]

\* A slip of undoMove: the undone move is taken off the moves.
undoMovePop(r) ==
  LET prev == prevMove(r)
  IN IF prev = NoMove THEN [ret |-> NoMove, rec |-> r]
     ELSE [ret |-> prev,
           rec |-> [map |-> IF prev.kind = KindStone
                            THEN MapDeleteAll(r.map, prev.pos)
                            ELSE r.map,
                    mov |-> SubSeq(r.mov, 1, r.idx - 1),
                    idx |-> r.idx - 1]]

\* Returns [ret, rec]: the undone move (or NoMove) and the record after.
undoMove(r) ==
  LET prev == prevMove(r)
  IN IF prev = NoMove THEN [ret |-> NoMove, rec |-> r]
     ELSE [ret |-> prev,
           rec |-> [map |-> IF prev.kind = KindStone
                            THEN MapDeleteAll(r.map, prev.pos)
                            ELSE r.map,
                    mov |-> r.mov,
                    idx |-> r.idx - 1]]

\* Returns [ret, rec]: the redone move (or NoMove) and the record after.
redoMove(r) ==
  LET next == nextMove(r)
  IN IF next = NoMove THEN [ret |-> NoMove, rec |-> r]
     ELSE [ret |-> next,
           rec |-> [map |-> IF next.kind = KindStone
                            THEN MapSetAll(r.map, next.pos, turnAt(r.idx + 1))
                            ELSE r.map,
                    mov |-> r.mov,
                    idx |-> r.idx + 1]]

RECURSIVE Repeat(_, _, _)
\* for (let i = 0; i < n; i++) step()
Repeat(r, n, undo) ==
  IF n <= 0 THEN r
  ELSE Repeat(IF undo THEN undoMove(r).rec ELSE redoMove(r).rec, n - 1, undo)

\* A slip of the range test: the index of the end is refused.
jumpBelowEnd(r, i) ==
  IF i >= Len(r.mov) THEN [ok |-> FALSE, rec |-> r]
  ELSE LET diff == r.idx - i
       IN [ok |-> TRUE,
           rec |-> IF diff > 0 THEN Repeat(r, diff, TRUE)
                   ELSE Repeat(r, -diff, FALSE)]

\* A slip of the range test: there is none.
jumpUnchecked(r, i) ==
  LET diff == r.idx - i
  IN [ok |-> TRUE,
      rec |-> [Repeat(r, IF diff > 0 THEN diff ELSE -diff, diff > 0)
                 EXCEPT !.idx = i]]

jump(r, i) ==
  IF i > Len(r.mov) THEN [ok |-> FALSE, rec |-> r]
  ELSE LET diff == r.idx - i
       IN [ok |-> TRUE,
           rec |-> IF diff > 0 THEN Repeat(r, diff, TRUE)
                   ELSE Repeat(r, -diff, FALSE)]

(***************************************************************************)
(* The server's board (package game): its stones and its ScanRow.  A board *)
(* is the map `board` from points to stones, written here with the points *)
(* under their index as in the record's map.                               *)
(***************************************************************************)
VerticalAxis == 0
AscendingAxis == 1
HorizontalAxis == 2
DescendingAxis == 3

\* Axis.UnitVec
UnitVec(axis) == (<<<<0, 1>>, <<1, -1>>, <<1, 0>>, <<1, 1>>>>)[axis + 1]

\* Point.Adjacent
Adjacent(p, axis, forward) ==
  LET d == UnitVec(axis)
  IN IF forward THEN <<p[1] + d[1], p[2] + d[2]>>
     ELSE <<p[1] - d[1], p[2] - d[2]>>

\* Board.Get: the zero value NoStone where the map has no entry.
Get(b, p) == IF index(p) \in DOMAIN b THEN b[index(p)] ELSE NoStone

RECURSIVE BoardScan(_, _, _, _, _)
\* The closure `scan` of Board.ScanRow: [cur, n], the point reached and the
\* number of steps taken.
BoardScan(b, stone, axis, cur, forward) ==
  LET next == Adjacent(cur, axis, forward)
  IN IF Get(b, next) = stone
     THEN LET rest == BoardScan(b, stone, axis, next, forward)
          IN [cur |-> rest.cur, n |-> rest.n + 1]
     ELSE [cur |-> cur, n |-> 0]

\* Board.ScanRow: with no stone at p the named results are returned as they
\* are, the zero Row and 0.
BoardScanRow(b, p, axis) ==
  LET stone == Get(b, p)
  IN IF stone = NoStone THEN [start |-> <<0, 0>>, end |-> <<0, 0>>, len |-> 0]
     ELSE LET s == BoardScan(b, stone, axis, p, FALSE)
              e == BoardScan(b, stone, axis, p, TRUE)
          IN [start |-> s.cur, end |-> e.cur, len |-> 1 + s.n + e.n]

RECURSIVE Replay(_, _)
\* for (const move of ms) r.makeMove(move)
Replay(r, ms) ==
  IF ms = <<>> THEN r ELSE Replay(makeMove(r, Head(ms)).rec, Tail(ms))

(***************************************************************************)
(* Varints (the imported @std/encoding/varint): 7 payload bits per byte,   *)
(* least significant group first, high bit set on every byte but the last. *)
(* Buffers are sequences of bytes; offsets count from 0 as in the source.  *)
(***************************************************************************)
MaxVarintLen32 == 5

RECURSIVE encodeVarint(_)
encodeVarint(n) ==
  IF n < 128 THEN <<n>>
  ELSE <<(n % 128) + 128>> \o encodeVarint(n \div 128)

RECURSIVE decodeFrom(_, _, _, _, _, _)
\* The decoding loop at byte i, having read k bytes that sum to acc, the
\* next group weighing mul.  A buffer that ends inside the varint is not
\* decided by this repository: with lax the decoder returns what it has
\* read so far, one past the end; otherwise it throws.
decodeFrom(buf, i, k, acc, mul, lax) ==
  IF k >= MaxVarintLen32 THEN [ok |-> FALSE, val |-> 0, next |-> i]
  ELSE IF i >= Len(buf)
  THEN IF lax THEN [ok |-> TRUE, val |-> acc, next |-> i + 1]
       ELSE [ok |-> FALSE, val |-> 0, next |-> i]
  ELSE LET byte == buf[i + 1]
           val == acc + (byte % 128) * mul
       IN IF byte < 128 THEN [ok |-> TRUE, val |-> val, next |-> i + 1]
          ELSE decodeFrom(buf, i + 1, k + 1, val, mul * 128, lax)

\* Returns [ok, val, next]; ok is FALSE when the decoder throws.
decodeVarint32(buf, offset, lax) == decodeFrom(buf, offset, 0, 0, 1, lax)

(***************************************************************************)
(* Move.serialize and Move.deserialize.                                    *)
(***************************************************************************)
RECURSIVE serializePositionsNoOffset(_)
\* A slip of the wire value: the index is written without the offset.
serializePositionsNoOffset(ps) ==
  IF ps = <<>> THEN <<>>
  ELSE encodeVarint(index(Head(ps))) \o serializePositionsNoOffset(Tail(ps))

RECURSIVE serializePositions(_)
serializePositions(ps) ==
  IF ps = <<>> THEN <<>>
  ELSE encodeVarint(index(Head(ps)) + MOVE_STONE_OFFSET) \o serializePositions(Tail(ps))

\* A slip of the Stone case: the Pass is written whatever `compact` says.
serializeMoveAlwaysPass(move, compact) ==
  IF move.kind = KindStone
  THEN serializePositions(move.pos)
       \o (IF Len(move.pos) = 1 THEN <<KindPass>> ELSE <<>>)
  ELSE IF move.kind = KindWin
  THEN <<move.kind>> \o encodeVarint(index(move.pos[1]))
  ELSE IF move.kind = KindResign
  THEN <<move.kind, move.stone>>
  ELSE <<move.kind>>

serializeMove(move, compact) ==
  IF move.kind = KindStone
  THEN serializePositions(move.pos)
       \o (IF Len(move.pos) = 1 /\ ~compact THEN <<KindPass>> ELSE <<>>)
  ELSE IF move.kind = KindWin
  THEN <<move.kind>> \o encodeVarint(index(move.pos[1]))
  ELSE IF move.kind = KindResign
  THEN <<move.kind, move.stone>>
  ELSE <<move.kind>>

\* The failure of a decode call: a thrown RangeError with its message
\* ("varint" stands for the message of the imported decoder).
Thrown(err) == [ok |-> FALSE, move |-> NoMove, next |-> 0, err |-> err]

\* A slip of the test for a stone: the offset itself is taken for a tag.
isStoneAboveOffset(x) == x > MOVE_STONE_OFFSET

\* x >= MOVE_STONE_OFFSET: the varint is a stone position, not a move kind.
isStone(x) == x >= MOVE_STONE_OFFSET

\* A slip of the early return: the end of the buffer is not looked at.
oneStoneFirstOnly(buf, i, first) == first

\* first || i >= buf.length: the move is the one stone read so far.
oneStone(buf, i, first) == first \/ i >= Len(buf)

\* Returns [ok, move, next]; ok is FALSE when the call throws, and err is
\* then the message.
deserializeMove(buf, offset, first, lax) ==
  LET d1 == decodeVarint32(buf, offset, lax)
  IN IF ~d1.ok THEN Thrown("varint")
     ELSE IF isStone(d1.val)
     THEN LET p1 == fromIndex(d1.val - MOVE_STONE_OFFSET)
          IN IF oneStone(buf, d1.next, first)
             THEN [ok |-> TRUE, move |-> StoneMove(<<p1>>), next |-> d1.next]
             ELSE LET d2 == decodeVarint32(buf, d1.next, lax)
                  IN IF ~d2.ok THEN Thrown("varint")
                     ELSE IF d2.val >= MOVE_STONE_OFFSET
                     THEN [ok |-> TRUE,
                           move |-> StoneMove(<<p1, fromIndex(d2.val - MOVE_STONE_OFFSET)>>),
                           next |-> d2.next]
                     ELSE IF d2.val # KindPass THEN Thrown("expected stone or pass")
                     ELSE [ok |-> TRUE, move |-> StoneMove(<<p1>>), next |-> d2.next]
     ELSE IF d1.val = KindWin
     THEN LET dp == decodeVarint32(buf, d1.next, lax)
          IN IF ~dp.ok THEN Thrown("varint")
             ELSE [ok |-> TRUE, move |-> WinMove(fromIndex(dp.val)), next |-> dp.next]
     ELSE IF d1.val = KindResign
     THEN IF d1.next >= Len(buf) THEN Thrown("expected stone")
          ELSE LET n == buf[d1.next + 1]
               IN IF n # 1 /\ n # 2 THEN Thrown("stone out of range")
                  ELSE [ok |-> TRUE, move |-> ResignMove(n), next |-> d1.next + 1]
     ELSE IF d1.val = KindPass
     THEN [ok |-> TRUE, move |-> PassMove, next |-> d1.next]
     ELSE IF d1.val = KindDraw
     THEN [ok |-> TRUE, move |-> DrawMove, next |-> d1.next]
     ELSE Thrown("unknown move kind")

(***************************************************************************)
(* Record.serialize and Record.deserialize.                                *)
(***************************************************************************)
RECURSIVE serializeMovesCompact(_, _, _)
\* A slip of the loop: every move is written compact, not only moves[0].
serializeMovesCompact(mov, k, end) ==
  IF k >= end THEN <<>>
  ELSE serializeMove(mov[k + 1], TRUE) \o serializeMovesCompact(mov, k + 1, end)

RECURSIVE serializeMoves(_, _, _)
\* for (let i = k; i < end; i++) Move.serialize(mov[i], buf, i == 0)
serializeMoves(mov, k, end) ==
  IF k >= end THEN <<>>
  ELSE serializeMove(mov[k + 1], k = 0) \o serializeMoves(mov, k + 1, end)

\* A slip of the end of the loop: every move is written, cursor or not.
serializeWholeHistory(r, all) ==
  (IF all THEN encodeVarint(r.idx) ELSE <<>>)
  \o serializeMoves(r.mov, 0, Len(r.mov))

\* A slip of the prefix: the number of moves is written as the move index.
serializeEndAsIndex(r, all) ==
  (IF all THEN encodeVarint(Len(r.mov)) ELSE <<>>)
  \o serializeMoves(r.mov, 0, IF all THEN Len(r.mov) ELSE r.idx)

serialize(r, all) ==
  (IF all THEN encodeVarint(r.idx) ELSE <<>>)
  \o serializeMoves(r.mov, 0, IF all THEN Len(r.mov) ELSE r.idx)

RECURSIVE deserializeLoopUnchecked(_, _, _, _)
\* A slip of the loop: the result of makeMove is not looked at.
deserializeLoopUnchecked(r, buf, i, lax) ==
  IF i >= Len(buf) THEN [ok |-> TRUE, rec |-> r]
  ELSE LET d == deserializeMove(buf, i, ~hasPast(r), lax)
       IN IF ~d.ok THEN [ok |-> FALSE, rec |-> EmptyRecord]
          ELSE deserializeLoopUnchecked(makeMove(r, d.move).rec, buf, d.next, lax)

RECURSIVE deserializeLoop(_, _, _, _)
\* The while loop of Record.deserialize: [ok, rec].
deserializeLoop(r, buf, i, lax) ==
  IF i >= Len(buf) THEN [ok |-> TRUE, rec |-> r]
  ELSE LET d == deserializeMove(buf, i, ~hasPast(r), lax)
       IN IF ~d.ok THEN [ok |-> FALSE, rec |-> EmptyRecord]
          ELSE LET m == makeMove(r, d.move)
               IN IF ~m.ok THEN [ok |-> FALSE, rec |-> EmptyRecord]
                  ELSE deserializeLoop(m.rec, buf, d.next, lax)

\* A slip of the test of the index: `index && ...`, so that the index 0 is
\* not jumped to.
deserializeTruthyIndex(buf, offset, all, lax) ==
  LET di == IF all THEN decodeVarint32(buf, offset, lax)
            ELSE [ok |-> TRUE, val |-> 0, next |-> offset]
  IN IF ~di.ok THEN [ok |-> FALSE, rec |-> EmptyRecord]
     ELSE LET l == deserializeLoop(EmptyRecord, buf, di.next, lax)
          IN IF ~l.ok THEN l
             ELSE IF ~all \/ di.val = 0 THEN l
             ELSE LET j == jump(l.rec, di.val)
                  IN IF ~j.ok THEN [ok |-> FALSE, rec |-> EmptyRecord]
                     ELSE [ok |-> TRUE, rec |-> j.rec]

\* Returns [ok, rec]; ok is FALSE when the call throws and no record is
\* returned.
deserialize(buf, offset, all, lax) ==
  LET di == IF all THEN decodeVarint32(buf, offset, lax)
            ELSE [ok |-> TRUE, val |-> 0, next |-> offset]
  IN IF ~di.ok THEN [ok |-> FALSE, rec |-> EmptyRecord]
     ELSE LET l == deserializeLoop(EmptyRecord, buf, di.next, lax)
          IN IF ~l.ok THEN l
             ELSE IF ~all THEN l
             ELSE LET j == jump(l.rec, di.val)
                  IN IF ~j.ok THEN [ok |-> FALSE, rec |-> EmptyRecord]
                     ELSE [ok |-> TRUE, rec |-> j.rec]

(***************************************************************************)
(* Inputs of the operations.                                               *)
(***************************************************************************)
\* The positions played: six adjacent points of a horizontal line.
a1 == <<1, 0>>
a2 == <<2, 0>>
a3 == <<3, 0>>
a4 == <<4, 0>>
a5 == <<5, 0>>
a6 == <<6, 0>>

StoneInputs ==
  {StoneMove(<<a1>>), StoneMove(<<a2, a1>>), StoneMove(<<a3, a4>>),
   StoneMove(<<a5, a6>>)}

MoveInputs ==
  StoneInputs \cup {PassMove, WinMove(a3), DrawMove, ResignMove(White)}

JumpInputs == 0..MaxJump

\* The move lists behind the buffers read by Load: records as played, and
\* lists that makeMove rejects part of the way.
Streams ==
  {<<StoneMove(<<a1>>), StoneMove(<<a3, a4>>), StoneMove(<<a5, a6>>)>>,
   <<StoneMove(<<a1>>), StoneMove(<<a2>>), PassMove, ResignMove(Black)>>,
   <<PassMove, StoneMove(<<a2, a1>>), PassMove, StoneMove(<<a3, a4>>),
     PassMove, StoneMove(<<a5, a6>>), WinMove(a3)>>,
   <<StoneMove(<<a1>>), StoneMove(<<a2, a1>>)>>,
   <<StoneMove(<<a1>>), StoneMove(<<a2>>), StoneMove(<<a2>>)>>,
   <<DrawMove, PassMove>>,
   <<StoneMove(<<a1>>), WinMove(a1)>>,
   <<PassMove, StoneMove(<<a2, a1>>), PassMove, StoneMove(<<a3, a4>>),
     PassMove, StoneMove(<<a5>>), WinMove(a3), StoneMove(<<a6>>)>>}

\* Buffers that are not the encoding of any move list: empty, an unknown
\* kind, a Resign without its stone or with a bad one, a Win without its
\* position, an unterminated varint.
RawInputs == {<<>>, <<4>>, <<3>>, <<3, 5>>, <<1>>, <<7, 128>>}

\* Each move list with the cursor prefix 2 and without a prefix.
LoadInputs ==
  {serialize([map |-> EmptyMap, mov |-> ms, idx |-> 2], TRUE) : ms \in Streams}
  \cup {serialize([map |-> EmptyMap, mov |-> ms, idx |-> Len(ms)], FALSE) : ms \in Streams}
  \cup RawInputs

\* The point j steps from o along the axis.
Cell(o, axis, j) ==
  LET d == unitVector(axis)
  IN <<o[1] + j * d[1], o[2] + j * d[2]>>

RECURSIVE Turns(_, _, _)
\* The moves of a game from history index i on in which Black places the
\* points of B and White the points of W, each as early as the rules allow
\* (one stone in moves[0], two afterwards) and passing when it has none.
Turns(B, W, i) ==
  IF B = <<>> /\ W = <<>> THEN <<>>
  ELSE LET mine == IF i % 2 = 0 THEN B ELSE W
           n == IF mine = <<>> THEN 0
                ELSE IF i = 0 \/ Len(mine) = 1 THEN 1 ELSE 2
           rest == SubSeq(mine, n + 1, Len(mine))
           move == IF n = 0 THEN PassMove ELSE StoneMove(SubSeq(mine, 1, n))
       IN <<move>> \o (IF i % 2 = 0 THEN Turns(rest, W, i + 1)
                       ELSE Turns(B, rest, i + 1))

\* The points 0..n-1 of the line through the origin along the axis, but k.
Line(axis, n, k) ==
  LET js == {j \in 0..(n - 1) : j # k}
      Nth[m \in 0..n] ==
        IF m = 0 THEN <<>>
        ELSE LET j == CHOOSE j \in js :
                        Cardinality({i \in js : i < j}) = m - 1
             IN Append(Nth[m - 1], Cell(<<0, 0>>, axis, j))
  IN Nth[Cardinality(js)]

\* The games whose boards are scanned.  Along each axis a run of n black
\* stones: alone; closed by a white stone at each end; and cut by a white
\* stone on its third point.  And for each pair of axes two black rows of
\* six that cross on their third points.
ScanGames ==
  {Turns(Line(axis, n, -1), <<>>, 0) : axis \in 0..3, n \in (MaxRun - 2)..MaxRun}
  \cup {Turns(Line(axis, n, -1),
              <<Cell(<<0, 0>>, axis, -1), Cell(<<0, 0>>, axis, n)>>, 0) :
          axis \in 0..3, n \in (MaxRun - 2)..MaxRun}
  \cup {Turns(Line(axis, n, 2), <<Cell(<<0, 0>>, axis, 2)>>, 0) :
          axis \in 0..3, n \in (MaxRun - 2)..MaxRun}
  \cup {Turns([j \in 1..6 |-> Cell(<<0, 0>>, ax[1], j - 3)]
              \o [j \in 1..2 |-> Cell(<<0, 0>>, ax[2], j - 3)]
              \o [j \in 1..3 |-> Cell(<<0, 0>>, ax[2], j)], <<>>, 0) :
          ax \in {ax \in (0..3) \X (0..3) : ax[1] # ax[2]}}

\* The points that are scanned: the points of the four lines through the
\* origin that hold the stones, and the points around them.
ScanPoints == {Cell(<<0, 0>>, axis, j) : axis \in 0..3, j \in -2..MaxRun}

(***************************************************************************)
(* The state machine.                                                      *)
(***************************************************************************)
\* The most recent call: its name, its arguments (move, index, buf, all),
\* the decoder's choice on a truncated varint (lax), whether the record had
\* future moves when the call was made, and its result (ok: the boolean
\* returned, or that nothing was thrown; ret: the move returned).
Call(op, move, i, buf, all, lax, hadFuture, ok, ret) ==
  [op |-> op, move |-> move, index |-> i, buf |-> buf, all |-> all,
   lax |-> lax, hadFuture |-> hadFuture, ok |-> ok, ret |-> ret]

Init ==
  /\ rec = EmptyRecord
  /\ last = Call("new", NoMove, 0, <<>>, FALSE, FALSE, FALSE, TRUE, NoMove)

\* rec.makeMove(m)
MakeMove(m) ==
  LET r == makeMove(rec, m)
  IN /\ rec' = r.rec
     /\ last' = Call("makeMove", m, 0, <<>>, FALSE, FALSE, hasFuture(rec), r.ok, NoMove)

\* rec.undoMove()
UndoMove ==
  LET r == undoMove(rec)
  IN /\ rec' = r.rec
     /\ last' = Call("undoMove", NoMove, 0, <<>>, FALSE, FALSE, hasFuture(rec), TRUE, r.ret)

\* rec.redoMove()
RedoMove ==
  LET r == redoMove(rec)
  IN /\ rec' = r.rec
     /\ last' = Call("redoMove", NoMove, 0, <<>>, FALSE, FALSE, hasFuture(rec), TRUE, r.ret)

\* rec.jump(i)
Jump(i) ==
  LET r == jump(rec, i)
  IN /\ rec' = r.rec
     /\ last' = Call("jump", NoMove, i, <<>>, FALSE, FALSE, hasFuture(rec), r.ok, NoMove)

\* rec.clear()
Clear ==
  /\ rec' = EmptyRecord
  /\ last' = Call("clear", NoMove, 0, <<>>, FALSE, FALSE, hasFuture(rec), TRUE, NoMove)

\* rec.assign(Record.deserialize(buf, 0, all)): the record is replaced when
\* the buffer decodes, and is left alone when deserialize throws.
Assign(op, buf, all, lax) ==
  LET d == deserialize(buf, 0, all, lax)
  IN /\ rec' = IF d.ok THEN d.rec ELSE rec
     /\ last' = Call(op, NoMove, 0, buf, all, lax, hasFuture(rec), d.ok, NoMove)

\* save() and the next setGameId('local'): the record is serialized with
\* all its moves and read back.
Reload(lax) == Assign("reload", serialize(rec, TRUE), TRUE, lax)

\* A record received or read from storage, whatever its bytes.
Load(buf, all, lax) == Assign("load", buf, all, lax)

Next ==
  \/ \E m \in MoveInputs : rec.idx < MaxMoves /\ MakeMove(m)
  \/ UndoMove
  \/ RedoMove
  \/ \E i \in JumpInputs : Jump(i)
  \/ Clear

Spec == Init /\ [][Next]_vars

\* Records made by makeMove calls alone, saved and read back.
NextSave ==
  \/ \E m \in MoveInputs : rec.idx < MaxSaved /\ MakeMove(m)
  \/ \E lax \in BOOLEAN : Reload(lax)
  \/ Clear

SpecSave == Init /\ [][NextSave]_vars

NextLoad ==
  \/ \E buf \in LoadInputs, all \in BOOLEAN, lax \in BOOLEAN : Load(buf, all, lax)
  \/ UndoMove
  \/ RedoMove
  \/ Clear

SpecLoad == Init /\ [][NextLoad]_vars

\* The bytes of the buffers decoded as one move: every tag and the first
\* stone positions, and two bytes with the continuation bit set.
ByteInputs == (0..MaxByte) \cup {128, 135}

\* The buffers decoded as one move.
BufInputs == UNION {[1..n -> ByteInputs] : n \in 0..MaxBufLen}

PointInputs == {<<x, y>> : x \in {-MaxCoord, -1, 0, 1, MaxCoord},
                           y \in {-MaxCoord, -1, 0, 1, MaxCoord}}

\* The moves encoded: every value of the type Move over the points.
CodecMoves ==
  {StoneMove(<<p>>) : p \in PointInputs}
  \cup {StoneMove(<<p, q>>) : p \in PointInputs, q \in PointInputs}
  \cup {WinMove(p) : p \in PointInputs}
  \cup {PassMove, DrawMove, ResignMove(Black), ResignMove(White)}

\* The buffers read where every operation is called: a game of three moves
\* with the cursor prefix 2, the same moves without a prefix (read with
\* all, the first byte is a cursor beyond the moves), a game that ends in a
\* Resign and a buffer that ends inside a varint.
AllInputs ==
  {serialize([map |-> EmptyMap, mov |-> ms, idx |-> 2], TRUE) :
     ms \in {<<StoneMove(<<a1>>), StoneMove(<<a3, a4>>), StoneMove(<<a5, a6>>)>>,
             <<StoneMove(<<a1>>), StoneMove(<<a2>>), PassMove, ResignMove(Black)>>}}
  \cup {serialize([map |-> EmptyMap, mov |-> ms, idx |-> 3], FALSE) :
          ms \in {<<StoneMove(<<a1>>), StoneMove(<<a3, a4>>), StoneMove(<<a5, a6>>)>>}}
  \cup {<<7, 128>>}

\* Every operation that sets the fields of the record.
NextAll ==
  \/ \E m \in MoveInputs : rec.idx < MaxPlayed /\ MakeMove(m)
  \/ UndoMove
  \/ RedoMove
  \/ \E i \in JumpInputs : Jump(i)
  \/ Clear
  \/ \E buf \in AllInputs, all \in BOOLEAN, lax \in BOOLEAN : Load(buf, all, lax)

SpecAll == Init /\ [][NextAll]_vars

\* The most recent codec call: the move and flag given to Move.serialize,
\* the buffer at hand and whether Move.serialize wrote it, and the flag,
\* the decoder's choice and the result of Move.deserialize.
CodecCall(op, move, compact, buf, written, first, lax, ret) ==
  [op |-> op, move |-> move, compact |-> compact, buf |-> buf,
   written |-> written, first |-> first, lax |-> lax, ret |-> ret]

\* A move to send, or a buffer received.
InitCodec ==
  /\ rec = EmptyRecord
  /\ last \in {CodecCall("new", m, FALSE, <<>>, FALSE, FALSE, FALSE, Thrown("")) :
                  m \in CodecMoves}
            \cup {CodecCall("new", NoMove, FALSE, buf, FALSE, FALSE, FALSE, Thrown("")) :
                    buf \in BufInputs}

\* Move.serialize(move, buf, compact) of the move to send.
MoveSerialize(compact) ==
  /\ last.move # NoMove
  /\ last' = CodecCall("Move.serialize", last.move, compact,
                        serializeMove(last.move, compact), TRUE, FALSE, FALSE,
                        Thrown(""))
  /\ UNCHANGED rec

\* Move.deserialize(buf, 0, first) of the buffer written or received.
MoveDeserialize(first, lax) ==
  /\ last' = CodecCall("Move.deserialize", last.move, last.compact, last.buf,
                        last.written, first, lax,
                        deserializeMove(last.buf, 0, first, lax))
  /\ UNCHANGED rec

NextCodec ==
  \/ \E compact \in BOOLEAN : MoveSerialize(compact)
  \/ \E first \in BOOLEAN, lax \in BOOLEAN : MoveDeserialize(first, lax)

SpecCodec == InitCodec /\ [][NextCodec]_vars

\* A record as played in one of the games to scan.
InitScan ==
  /\ rec \in {Replay(EmptyRecord, ms) : ms \in ScanGames}
  /\ last = Call("new", NoMove, 0, <<>>, FALSE, FALSE, FALSE, TRUE, NoMove)

\* rec.scanRow(p, axis)
ScanRow(p, axis) ==
  /\ last' = [op |-> "scanRow", pos |-> p, axis |-> axis, ret |-> scanRow(rec, p, axis)]
  /\ UNCHANGED rec

\* rec.findWinRow(p)
FindWinRow(p) ==
  /\ last' = [op |-> "findWinRow", pos |-> p, ret |-> findWinRowCall(rec, p)]
  /\ UNCHANGED rec

\* board.ScanRow(p, axis) on the server's board holding the same stones.
GoScanRow(p, axis) ==
  /\ last' = [op |-> "Board.ScanRow", pos |-> p, axis |-> axis,
               ret |-> BoardScanRow(rec.map, p, axis)]
  /\ UNCHANGED rec

NextScan ==
  \/ \E p \in ScanPoints, axis \in 0..3 : ScanRow(p, axis)
  \/ \E p \in ScanPoints, axis \in 0..3 : GoScanRow(p, axis)
  \/ \E p \in ScanPoints : FindWinRow(p)

SpecScan == InitScan /\ [][NextScan]_vars

(***************************************************************************)
(* Properties of the record.                                               *)
(***************************************************************************)
\* The stone placements of moves[0..cursor): the pairs <<i, k>> of a history
\* index i (counted from 1) and a position number k of a Stone move.
Placements(r) ==
  {ik \in (1..r.idx) \X (1..2) :
     r.mov[ik[1]].kind = KindStone /\ ik[2] <= Len(r.mov[ik[1]].pos)}

\* The move at cursor-1 is Win, Draw or Resign.
EndedAt(r) ==
  r.idx > 0 /\ r.mov[r.idx].kind \in {KindWin, KindDraw, KindResign}

\* C1: after any sequence of makeMove, undoMove, redoMove and jump calls a
\* position is occupied iff a Stone move of moves[0..cursor) lists it, and
\* its stone is Black when that move's history index is even and White when
\* it is odd.
C1_OccupiedIsReplay ==
  /\ DOMAIN rec.map = {index(rec.mov[ik[1]].pos[ik[2]]) : ik \in Placements(rec)}
  /\ \A ik \in Placements(rec) :
       rec.map[index(rec.mov[ik[1]].pos[ik[2]])]
         = (IF (ik[1] - 1) % 2 = 0 THEN Black ELSE White)

\* C2: undoMove() at cursor > 0 followed at once by redoMove() leaves
\* occupied, cursor and moves as they were before the undo.
C2_UndoRedoRestores ==
  [][(last'.op = "undoMove" /\ rec.idx > 0) => redoMove(rec').rec = rec]_vars

\* C3: makeMove of a Stone move with any target position occupied returns
\* false and leaves moves, cursor and occupied unchanged.
C3_NoOverwrite ==
  [][(/\ last'.op = "makeMove"
      /\ last'.move.kind = KindStone
      /\ \E k \in 1..Len(last'.move.pos) :
           index(last'.move.pos[k]) \in DOMAIN rec.map)
     => (~last'.ok /\ rec' = rec)]_vars

\* A two-position Stone move was refused on a record that is not ended and
\* has a past move, its first position free and its second occupied.
C3_Witness ==
  /\ last.op = "makeMove" /\ ~last.ok
  /\ last.move.kind = KindStone /\ Len(last.move.pos) = 2
  /\ rec.idx > 0 /\ ~EndedAt(rec)
  /\ index(last.move.pos[1]) \notin DOMAIN rec.map
  /\ index(last.move.pos[2]) \in DOMAIN rec.map

\* C4: on an ended record makeMove returns false for every kind of move and
\* moves, cursor and occupied are unchanged.
C4_EndedRejectsAll ==
  [][(last'.op = "makeMove" /\ EndedAt(rec)) => (~last'.ok /\ rec' = rec)]_vars

\* A Draw, which nothing else refuses, was refused on an ended record.
C4_Witness ==
  /\ last.op = "makeMove" /\ ~last.ok
  /\ last.move.kind = KindDraw
  /\ EndedAt(rec)

\* C5: a record made by successful makeMove calls alone, serialized with
\* all = true and deserialized with all = true, comes back with the same
\* moves, cursor and occupied map, and deserialize does not throw.
C5_RoundTripAll ==
  [][(last'.op = "reload" /\ last'.buf = serialize(rec, TRUE))
     => (last'.ok /\ rec' = rec)]_vars

\* A record ending in an accepted Win claim was saved and read back.
C5_Witness ==
  /\ last.op = "reload" /\ last.ok
  /\ rec.idx = Len(rec.mov) /\ rec.idx > 0
  /\ rec.mov[rec.idx].kind = KindWin

RECURSIVE StreamRejected(_, _, _, _)
\* Replaying the moves encoded in buf from byte i on the record r, makeMove
\* refuses one of them.
StreamRejected(r, buf, i, lax) ==
  IF i >= Len(buf) THEN FALSE
  ELSE LET d == deserializeMove(buf, i, r.idx = 0, lax)
       IN IF ~d.ok THEN FALSE
          ELSE LET m == makeMove(r, d.move)
               IN IF ~m.ok THEN TRUE
                  ELSE StreamRejected(m.rec, buf, d.next, lax)

\* The stream of a deserialize call holds a move that makeMove refuses.
IllegalStream(buf, all, lax) ==
  IF all
  THEN LET c == decodeVarint32(buf, 0, lax)
       IN c.ok /\ StreamRejected(EmptyRecord, buf, c.next, lax)
  ELSE StreamRejected(EmptyRecord, buf, 0, lax)

RECURSIVE Accepted(_, _, _)
\* makeMove accepts moves k.. of ms one after the other, starting on r.
Accepted(r, ms, k) ==
  k > Len(ms) \/ (makeMove(r, ms[k]).ok /\ Accepted(makeMove(r, ms[k]).rec, ms, k + 1))

\* C6: Record.deserialize returns no record built from an illegal stream:
\* when makeMove refuses a decoded move the call throws and hands over no
\* record, and the moves of a record it does return are all accepted by
\* makeMove in their order.
C6_NoIllegalRecord ==
  [][last'.op = "load"
     => /\ IllegalStream(last'.buf, last'.all, last'.lax) => ~last'.ok
        /\ ~last'.ok => rec' = rec
        /\ last'.ok => Accepted(EmptyRecord, rec'.mov, 1)]_vars

\* A stream with a refused move was read while a record with moves was
\* held, and that record is still there.
C6_Witness ==
  /\ last.op = "load" /\ ~last.ok
  /\ IllegalStream(last.buf, last.all, last.lax)
  /\ rec.mov # <<>>

\* C7 as stated: moves[0], if a Stone move, has one position, and a Stone
\* move at history index >= 1 has two positions unless a Pass move follows
\* it in moves.
C7_SecondStoneOrPass ==
  \A i \in 1..Len(rec.mov) :
    rec.mov[i].kind = KindStone
    => IF i = 1 THEN Len(rec.mov[i].pos) = 1
       ELSE \/ Len(rec.mov[i].pos) = 2
            \/ i < Len(rec.mov) /\ rec.mov[i + 1].kind = KindPass

\* C7 as amended: moves[0], if a Stone move, has one position, and a Stone
\* move at history index >= 1 has one or two positions (a one-position
\* Stone move need not be followed by a Pass move).
C7_OneOrTwoStones ==
  \A i \in 1..Len(rec.mov) :
    rec.mov[i].kind = KindStone
    => /\ Len(rec.mov[i].pos) \in {1, 2}
       /\ i = 1 => Len(rec.mov[i].pos) = 1

\* makeMove has put a Stone move after a first move that is a Stone move.
C7_Witness ==
  /\ last.op = "makeMove" /\ last.ok
  /\ rec.idx >= 2
  /\ rec.mov[1].kind = KindStone
  /\ rec.mov[rec.idx].kind = KindStone

\* C8: with cursor 0, makeMove of a two-position Stone move returns false
\* and changes nothing and makeMove of a one-position Stone move returns
\* true, whether moves is empty or every move has been undone.
C8_OpeningArity ==
  [][(last'.op = "makeMove" /\ last'.move.kind = KindStone /\ rec.idx = 0)
     => /\ Len(last'.move.pos) = 2 => (~last'.ok /\ rec' = rec)
        /\ Len(last'.move.pos) = 1 => last'.ok]_vars

\* A two-position Stone move was refused at cursor 0 of a record whose
\* moves have all been undone.
C8_Witness ==
  /\ last.op = "makeMove" /\ ~last.ok
  /\ last.move.kind = KindStone /\ Len(last.move.pos) = 2
  /\ rec.idx = 0 /\ rec.mov # <<>>

\* C9: a successful makeMove(m) at cursor c leaves moves equal to the old
\* moves[0..c) followed by m and the cursor at c + 1 = moves.length, so a
\* following redoMove is a no-op.
C9_TruncateAppend ==
  [][(last'.op = "makeMove" /\ last'.ok)
     => /\ rec'.mov = Append(SubSeq(rec.mov, 1, rec.idx), last'.move)
        /\ rec'.idx = rec.idx + 1
        /\ rec'.idx = Len(rec'.mov)
        /\ redoMove(rec') = [ret |-> NoMove, rec |-> rec']]_vars

\* makeMove succeeded on a record that had future moves.
C9_Witness ==
  /\ last.op = "makeMove" /\ last.ok /\ last.hadFuture
  /\ rec.idx = Len(rec.mov)

\* Some axis through p holds six adjacent stones of one colour, p among
\* them.
SixThrough(r, p) ==
  /\ index(p) \in DOMAIN r.map
  /\ \E d \in {<<1, 0>>, <<1, 1>>, <<0, 1>>, <<1, -1>>}, o \in 0..5 :
       \A j \in 0..5 :
         LET q == <<p[1] + (j - o) * d[1], p[2] + (j - o) * d[2]>>
         IN index(q) \in DOMAIN r.map /\ r.map[index(q)] = r.map[index(p)]

\* C10: on a record that is not ended makeMove of Win(pos) returns true iff
\* pos holds a stone and an axis through pos has a run of at least six
\* stones of its colour; when it returns false nothing changes, and when it
\* returns true occupied is unchanged and the record is ended.
C10_WinClaim ==
  [][(last'.op = "makeMove" /\ last'.move.kind = KindWin /\ ~EndedAt(rec))
     => /\ last'.ok <=> SixThrough(rec, last'.move.pos[1])
        /\ ~last'.ok => rec' = rec
        /\ last'.ok => (rec'.map = rec.map /\ EndedAt(rec'))]_vars

\* A Win claim was accepted.
C10_Witness ==
  /\ last.op = "makeMove" /\ last.ok
  /\ last.move.kind = KindWin
  /\ EndedAt(rec)

(***************************************************************************)
(* Properties of the cursor.                                               *)
(***************************************************************************)
\* C13: 0 <= cursor <= moves.length in every reachable state, that is after
\* every makeMove, undoMove, redoMove, jump, clear, assign and deserialize.
C13_CursorInRange == 0 <= rec.idx /\ rec.idx <= Len(rec.mov)

\* A record was read whose cursor prefix is below the number of its moves.
C13_Witness ==
  /\ last.op = "load" /\ last.ok /\ last.all
  /\ 0 < rec.idx /\ rec.idx < Len(rec.mov)

\* C14: undoMove, redoMove and jump never change the moves (an undone move
\* stays there for redo); undoMove at cursor 0 and redoMove at cursor =
\* moves.length return nothing and leave cursor and occupied unchanged.
C14_HistoryKept ==
  [][last'.op \in {"undoMove", "redoMove", "jump"}
     => /\ rec'.mov = rec.mov
        /\ (last'.op = "undoMove" /\ rec.idx = 0)
           => (last'.ret = NoMove /\ rec' = rec)
        /\ (last'.op = "redoMove" /\ rec.idx = Len(rec.mov))
           => (last'.ret = NoMove /\ rec' = rec)]_vars

\* undoMove has undone a Stone move, which is now the next move to redo.
C14_Witness ==
  /\ last.op = "undoMove" /\ last.ret # NoMove
  /\ last.ret.kind = KindStone
  /\ rec.idx < Len(rec.mov) /\ rec.mov[rec.idx + 1] = last.ret

\* C15: for every index with 0 <= index <= moves.length jump(index)
\* returns true and the cursor is the index afterwards; for every index >
\* moves.length it returns false and leaves moves, cursor and occupied
\* unchanged.
C15_JumpReachesIndex ==
  [][last'.op = "jump"
     => IF last'.index <= Len(rec.mov)
        THEN last'.ok /\ rec'.idx = last'.index
        ELSE ~last'.ok /\ rec' = rec]_vars

\* jump has gone forward over future moves to the last index.
C15_Witness ==
  /\ last.op = "jump" /\ last.ok /\ last.hadFuture
  /\ last.index = Len(rec.mov) /\ rec.idx = last.index
  /\ rec.idx >= 2

\* The call has changed the cursor: a makeMove that returned true, or an
\* undoMove or redoMove that returned a move.
Effective(call) ==
  \/ call.op = "makeMove" /\ call.ok
  \/ call.op \in {"undoMove", "redoMove"} /\ call.ret # NoMove

\* C16: turn() is Black iff the cursor is even and White otherwise, so
\* every successful makeMove of any kind and every effective undoMove or
\* redoMove flips the player to move.
C16_TurnByParity ==
  [][/\ turn(rec') = (IF rec'.idx % 2 = 0 THEN Black ELSE White)
     /\ Effective(last') => turn(rec') = opposite(turn(rec))]_vars

\* White has passed after a one-stone move of Black, and an undoMove has
\* taken the Pass back: it is White's turn again.
C16_Witness ==
  /\ last.op = "undoMove" /\ last.ret = PassMove
  /\ rec.idx = 1 /\ Len(rec.mov[1].pos) = 1
  /\ turn(rec) = White

\* C17: while the record is ended the occupied stones change only through
\* undoMove or jump (or clear): every makeMove is refused and redoMove does
\* nothing, because an ended record has no future moves.
C17_EndedIsFrozen ==
  [][EndedAt(rec)
     => /\ ~hasFuture(rec)
        /\ rec'.map # rec.map => last'.op \in {"undoMove", "jump", "clear"}
        /\ last'.op = "makeMove" => (~last'.ok /\ rec' = rec)
        /\ last'.op = "redoMove" => (last'.ret = NoMove /\ rec' = rec)]_vars

\* redoMove was called on an ended record with stones and did nothing.
C17_Witness ==
  /\ last.op = "redoMove" /\ last.ret = NoMove
  /\ EndedAt(rec) /\ rec.map # EmptyMap

(***************************************************************************)
(* Properties of scanRow and findWinRow.                                   *)
(***************************************************************************)
\* The step of each axis: horizontal, diagonal, vertical, anti-diagonal.
AxisStep(axis) ==
  CASE axis = 0 -> <<1, 0>>
    [] axis = 1 -> <<1, 1>>
    [] axis = 2 -> <<0, 1>>
    [] axis = 3 -> <<1, -1>>

\* The number of adjacent points after p, going by d, that hold the stone s
\* one after the other.
Reach(r, p, d, s) ==
  CHOOSE k \in 0..(MaxRun + 3) :
    /\ \A j \in 1..k : stoneAt(r, <<p[1] + j * d[1], p[2] + j * d[2]>>) = s
    /\ stoneAt(r, <<p[1] + (k + 1) * d[1], p[2] + (k + 1) * d[2]>>) # s

\* The maximal run through p along the axis: [start, end, len]; no stone
\* at p is the run of length 0 at p.
RunThrough(r, p, axis) ==
  LET d == AxisStep(axis)
      s == stoneAt(r, p)
      b == Reach(r, p, <<-d[1], -d[2]>>, s)
      f == Reach(r, p, d, s)
  IN IF s = NoStone THEN [start |-> p, end |-> p, len |-> 0]
     ELSE [start |-> <<p[1] - b * d[1], p[2] - b * d[2]>>,
           end |-> <<p[1] + f * d[1], p[2] + f * d[2]>>,
           len |-> b + f + 1]

\* The server's axis of each step.
GoAxisOf(axis) ==
  CASE axis = VerticalAxis -> Vertical
    [] axis = AscendingAxis -> AntiDiagonal
    [] axis = HorizontalAxis -> Horizontal
    [] axis = DescendingAxis -> Diagonal

\* C11: for a position holding a stone and any of the four axes scanRow
\* (the record's, and the server board's ScanRow) returns the two ends of
\* the maximal run of stones of that colour through the position along the
\* axis and the number of its stones; for an empty position it returns
\* start = end = the position and length 0.
C11_ScanRowMaximalRun ==
  /\ last.op = "scanRow"
     => /\ last.ret = RunThrough(rec, last.pos, last.axis)
        /\ stoneAt(rec, last.pos) = NoStone
           => last.ret = [start |-> last.pos, end |-> last.pos, len |-> 0]
  /\ last.op = "Board.ScanRow"
     => /\ last.ret = RunThrough(rec, last.pos, GoAxisOf(last.axis))
        /\ stoneAt(rec, last.pos) = NoStone
           => last.ret = [start |-> last.pos, end |-> last.pos, len |-> 0]

\* The part of C11 that holds: the record's scanRow, and the server board's
\* ScanRow on a position that holds a stone.
C11_RunWhereStone ==
  /\ last.op = "scanRow" => last.ret = RunThrough(rec, last.pos, last.axis)
  /\ (last.op = "Board.ScanRow" /\ stoneAt(rec, last.pos) # NoStone)
     => last.ret = RunThrough(rec, last.pos, GoAxisOf(last.axis))

\* scanRow was called on an inner point of a run of five along the
\* anti-diagonal that has a stone of the other colour after its end.
C11_Witness ==
  /\ last.op = "scanRow" /\ last.axis = AntiDiagonal
  /\ last.ret.len = 5
  /\ last.pos # last.ret.start /\ last.pos # last.ret.end
  /\ stoneAt(rec, <<last.ret.end[1] + 1, last.ret.end[2] - 1>>)
       = opposite(stoneAt(rec, last.pos))

\* The axes along which the run through p has six stones or more.
WinAxes(r, p) == {axis \in 0..3 : RunThrough(r, p, axis).len >= 6}

\* C12: findWinRow(pos) returns nothing when pos is empty or every run
\* through pos is shorter than 6, and otherwise the row of the first axis,
\* in the order horizontal, diagonal, vertical, anti-diagonal, whose run
\* has 6 stones or more, whichever point of the run pos is.
C12_FirstWinAxis ==
  last.op = "findWinRow"
  => IF stoneAt(rec, last.pos) = NoStone \/ WinAxes(rec, last.pos) = {}
     THEN ~last.ret.found
     ELSE LET axis == CHOOSE a \in WinAxes(rec, last.pos) :
                        \A b \in WinAxes(rec, last.pos) : a <= b
              run == RunThrough(rec, last.pos, axis)
          IN /\ last.ret.found
             /\ last.ret.row = [start |-> run.start, end |-> run.end]

\* findWinRow was called on the point where a vertical and an anti-diagonal
\* row of six cross, an inner point of both, and returned the vertical one.
C12_Witness ==
  /\ last.op = "findWinRow" /\ last.ret.found
  /\ WinAxes(rec, last.pos) = {Vertical, AntiDiagonal}
  /\ last.pos # last.ret.row.start /\ last.pos # last.ret.row.end
  /\ last.ret.row.start[1] = last.ret.row.end[1]

(***************************************************************************)
(* Properties of Move.serialize and Move.deserialize.                      *)
(***************************************************************************)
\* The bytes of buf after the first i hold a whole varint: a byte without
\* the continuation bit comes within the next five.
WholeVarint(buf, i) ==
  \E e \in (i + 1)..Len(buf) : buf[e] < 128 /\ e - i <= 5

\* The number of bytes of the whole varint after the first i bytes of buf.
VarintLen(buf, i) ==
  (CHOOSE e \in (i + 1)..Len(buf) :
     buf[e] < 128 /\ \A k \in (i + 1)..(e - 1) : buf[k] >= 128) - i

RECURSIVE GroupSum(_, _, _)
\* The value of the groups of seven bits in bytes i+1..e of buf, the least
\* significant group first.
GroupSum(buf, i, e) ==
  IF i >= e THEN 0 ELSE (buf[i + 1] % 128) + 128 * GroupSum(buf, i + 1, e)

\* The value of the whole varint after the first i bytes of buf.
VarintValue(buf, i) == GroupSum(buf, i, i + VarintLen(buf, i))

\* C18: Move.deserialize classifies the leading varint v: v >= 7 is the
\* stone position fromIndex(v - 7) (the single byte 7 with first = true is
\* the Stone move at (0,0), 1 byte consumed); v = 0, 1, 2, 3 are Pass, Win,
\* Draw, Resign; v = 4, 5 or 6 fails with 'unknown move kind'.
C18_LeadingVarint ==
  (last.op = "Move.deserialize" /\ WholeVarint(last.buf, 0))
  => LET v == VarintValue(last.buf, 0)
         n == VarintLen(last.buf, 0)
         ret == last.ret
     IN /\ v >= 7
           => /\ ret.ok => /\ ret.move.kind = KindStone
                            /\ ret.move.pos[1] = fromIndex(v - 7)
              /\ last.first
                 => (/\ ret.ok /\ ret.next = n
                     /\ ret.move = StoneMove(<<fromIndex(v - 7)>>))
        /\ (last.buf = <<7>> /\ last.first)
           => (ret.ok /\ ret.move = StoneMove(<<<<0, 0>>>>) /\ ret.next = 1)
        /\ v = 0 => (ret.ok /\ ret.move = PassMove /\ ret.next = n)
        /\ v = 1 => /\ ret.ok => ret.move.kind = KindWin
                    /\ WholeVarint(last.buf, n) => ret.ok
        /\ v = 2 => (ret.ok /\ ret.move = DrawMove /\ ret.next = n)
        /\ v = 3 => /\ ret.ok => ret.move.kind = KindResign
                    /\ (Len(last.buf) > n /\ last.buf[n + 1] \in {1, 2}) => ret.ok
        /\ v \in {4, 5, 6} => (~ret.ok /\ ret.err = "unknown move kind")

\* A buffer whose leading varint is 7 written in two bytes, with a byte
\* after it, was decoded with first = true as the stone at (0,0).
C18_Witness ==
  /\ last.op = "Move.deserialize" /\ last.first
  /\ Len(last.buf) = 3 /\ last.buf[1] = 135 /\ last.buf[2] = 0
  /\ last.ret.ok /\ last.ret.move = StoneMove(<<<<0, 0>>>>)
  /\ last.ret.next = 2

\* The leading varint of the buffer decoded with first = false is a whole
\* stone-position varint.
StoneLed(call) ==
  /\ call.op = "Move.deserialize" /\ ~call.first
  /\ WholeVarint(call.buf, 0) /\ VarintValue(call.buf, 0) >= 7

\* C19 as stated: Move.deserialize with first = false always reads a second
\* varint after a stone-position varint: it returns a one-position Stone
\* move only when that second varint is the Pass tag 0, and when the input
\* ends right after the first position varint it fails.
C19_AlwaysSecondVarint ==
  StoneLed(last)
  => LET n == VarintLen(last.buf, 0)
     IN /\ Len(last.buf) = n => ~last.ret.ok
        /\ (last.ret.ok /\ Len(last.ret.move.pos) = 1)
           => (WholeVarint(last.buf, n) /\ VarintValue(last.buf, n) = 0)

\* C19 as amended: with first = false, when the input ends right after the
\* first position varint the one-position Stone move is returned and that
\* varint consumed; when a whole second varint follows, the move has one
\* position if it is the Pass tag 0 and two if it is >= 7, both varints
\* consumed, and the call fails with 'expected stone or pass' otherwise.
C19_SecondVarintIfAny ==
  StoneLed(last)
  => LET n == VarintLen(last.buf, 0)
         p == fromIndex(VarintValue(last.buf, 0) - 7)
         ret == last.ret
     IN /\ Len(last.buf) = n
           => (ret.ok /\ ret.move = StoneMove(<<p>>) /\ ret.next = n)
        /\ WholeVarint(last.buf, n)
           => LET w == VarintValue(last.buf, n)
                  m == VarintLen(last.buf, n)
              IN /\ w = 0 => (/\ ret.ok /\ ret.next = n + m
                               /\ ret.move = StoneMove(<<p>>))
                 /\ w >= 7 => (/\ ret.ok /\ ret.next = n + m
                                /\ ret.move = StoneMove(<<p, fromIndex(w - 7)>>))
                 /\ w \in 1..6 => (~ret.ok /\ ret.err = "expected stone or pass")

\* A buffer that ends right after a two-byte stone-position varint was
\* decoded with first = false and a one-position Stone move came back.
C19_Witness ==
  /\ StoneLed(last) /\ Len(last.buf) = 2 /\ VarintLen(last.buf, 0) = 2
  /\ last.ret.ok /\ Len(last.ret.move.pos) = 1

\* C20: for every move m and flag f such that m is not a two-position
\* Stone move when f is true, Move.deserialize(Move.serialize(m, compact =
\* f), first = f) returns a move equal to m and consumes exactly the bytes
\* written.
C20_MoveRoundTrip ==
  (/\ last.op = "Move.deserialize" /\ last.written
   /\ last.first = last.compact
   /\ ~(last.compact /\ last.move.kind = KindStone /\ Len(last.move.pos) = 2))
  => /\ last.ret.ok
     /\ last.ret.move = last.move
     /\ last.ret.next = Len(last.buf)

\* A one-position Stone move whose position takes two bytes was written
\* with compact = false and read back with first = false.
C20_Witness ==
  /\ last.op = "Move.deserialize" /\ last.written
  /\ ~last.first /\ ~last.compact /\ last.ret.ok
  /\ last.move.kind = KindStone /\ Len(last.move.pos) = 1
  /\ Len(last.buf) = 3

(***************************************************************************)
(* The record sent without its future moves.                               *)
(***************************************************************************)
\* rec.assign(Record.deserialize(rec.serialize(false), 0, false)): the record
\* as a peer receives it.
Resend(lax) == Assign("resend", serialize(rec, FALSE), FALSE, lax)

\* Records made by makeMove and undoMove calls, sent and read back.
NextSend ==
  \/ \E m \in MoveInputs : rec.idx < MaxSent /\ MakeMove(m)
  \/ UndoMove
  \/ \E lax \in BOOLEAN : Resend(lax)

SpecSend == Init /\ [][NextSend]_vars

\* C21: for a record R reached by makeMove and undoMove calls,
\* deserialize(serialize(R, false), false) does not throw and yields a record
\* whose moves are R.moves[0..R.cursor), whose cursor is R.cursor with no
\* future moves, and whose occupied map is R's.
C21_RoundTripPast ==
  [][last'.op = "resend"
     => /\ last'.ok
        /\ rec'.mov = SubSeq(rec.mov, 1, rec.idx)
        /\ rec'.idx = rec.idx
        /\ ~hasFuture(rec')
        /\ rec'.map = rec.map]_vars

\* A record whose second move was undone was sent and came back as a record
\* of one move.
C21_Witness ==
  /\ last.op = "resend" /\ last.ok /\ last.hadFuture
  /\ rec.idx = 1 /\ Len(rec.mov) = 1

(***************************************************************************)
(* Records read with a cursor prefix.                                      *)
(***************************************************************************)
\* A record as played.
Played == <<StoneMove(<<a1>>), StoneMove(<<a3, a4>>), StoneMove(<<a5, a6>>)>>

\* The move lists behind the buffers read with a cursor prefix: two records
\* as played, one ended, and a list that makeMove rejects.
CursorStreams ==
  {Played,
   <<StoneMove(<<a1>>), StoneMove(<<a2>>), PassMove, ResignMove(Black)>>,
   <<StoneMove(<<a1>>), StoneMove(<<a2, a1>>)>>}

\* Each move list after each cursor prefix, and buffers that end inside the
\* prefix or inside a move.
CursorInputs ==
  {encodeVarint(c) \o serializeMoves(ms, 0, Len(ms)) :
     c \in 0..MaxCursor, ms \in CursorStreams}
  \cup {<<>>, <<128>>, <<1, 7, 128>>}

NextCursor ==
  \/ \E buf \in CursorInputs, lax \in BOOLEAN : Load(buf, TRUE, lax)
  \/ UndoMove
  \/ RedoMove

SpecCursor == Init /\ [][NextCursor]_vars

\* C22: Record.deserialize with all = true, on a buffer whose leading varint
\* is whole and whose remaining bytes decode to moves that makeMove accepts,
\* throws when the varint exceeds the number of those moves; otherwise the
\* record returned has the varint as its cursor and all those moves as its
\* moves.
C22_CursorWithinMoves ==
  [][(last'.op = "load" /\ last'.all /\ WholeVarint(last'.buf, 0))
     => LET c == VarintValue(last'.buf, 0)
            f == deserialize(last'.buf, VarintLen(last'.buf, 0), FALSE, last'.lax)
        IN f.ok
           => IF c > Len(f.rec.mov)
              THEN ~last'.ok /\ rec' = rec
              ELSE last'.ok /\ rec'.idx = c /\ rec'.mov = f.rec.mov]_vars

\* A buffer of three moves was refused for its cursor prefix 4 ...
C22_Witness ==
  /\ last.op = "load" /\ last.all /\ ~last.ok
  /\ last.buf = <<Len(Played) + 1>> \o serializeMoves(Played, 0, Len(Played))

\* ... and read with the cursor prefixes 3 and 0.
C22_WitnessWithin ==
  /\ last.op = "load" /\ last.all /\ last.ok
  /\ rec.mov = Played /\ rec.idx \in {0, Len(Played)}

(***************************************************************************)
(* Points and their indices.                                               *)
(***************************************************************************)
\* The points indexed: the square of the coordinates -MaxPoint..MaxPoint.
IndexPoints == (-MaxPoint..MaxPoint) \X (-MaxPoint..MaxPoint)

\* The indices turned into points.
IndexInputs == 0..MaxIndex

\* No point at hand.
NoPoint == <<>>

\* The most recent call on a point or an index: what was given at first (a
\* point or an index), the point and the index at hand (-1: none yet), and
\* the bytes written for the point.
IndexCall(op, from, given, pos, i, buf) ==
  [op |-> op, from |-> from, given |-> given, pos |-> pos, index |-> i,
   buf |-> buf]

\* A point to index, or an index received.
InitIndex ==
  /\ rec = EmptyRecord
  /\ last \in {IndexCall("new", "point", p, p, -1, <<>>) : p \in IndexPoints}
            \cup {IndexCall("new", "index", i, NoPoint, i, <<>>) : i \in IndexInputs}

\* pos.index()
ToIndex ==
  /\ last.pos # NoPoint
  /\ last' = IndexCall("index", last.from, last.given, last.pos,
                        index(last.pos), last.buf)
  /\ UNCHANGED rec

\* Point.fromIndex(i)
FromIndex ==
  /\ last.index >= 0
  /\ last' = IndexCall("fromIndex", last.from, last.given,
                        fromIndex(last.index), last.index, last.buf)
  /\ UNCHANGED rec

\* Move.serialize of the Stone move at pos alone, compact.
StoneSerialize ==
  /\ last.pos # NoPoint
  /\ last' = IndexCall("Move.serialize", last.from, last.given, last.pos,
                        last.index, serializeMove(StoneMove(<<last.pos>>), TRUE))
  /\ UNCHANGED rec

NextIndex ==
  \/ ToIndex
  \/ FromIndex
  \/ StoneSerialize

SpecIndex == InitIndex /\ [][NextIndex]_vars

\* C23: Point.fromIndex(p.index()) is p for every point p,
\* Point.fromIndex(i).index() is i for every natural i, and the index of the
\* point (0, 0) is 0.
C23_IndexBijection ==
  /\ (last.op = "fromIndex" /\ last.from = "point") => last.pos = last.given
  /\ (last.op = "index" /\ last.from = "index") => last.index = last.given
  /\ (last.op = "index" /\ last.pos = <<0, 0>>) => last.index = 0

\* An index with equal halves (x = y in elegantPair) came back from the
\* point it was turned into.
C23_Witness ==
  /\ last.op = "index" /\ last.from = "index"
  /\ last.given = 8 /\ last.pos = <<1, 1>>

\* C24: a stone position with |x| <= 5 and |y| <= 5 has an index <= 120 and
\* is written as exactly one byte, its index + 7; every other position has
\* an index >= 121 and is written as more than one byte.
C24_CentralAreaOneByte ==
  LET p == last.pos
      central == /\ -5 <= p[1] /\ p[1] <= 5
                 /\ -5 <= p[2] /\ p[2] <= 5
  IN /\ (last.op = "index" /\ last.from = "point")
        => IF central THEN last.index <= 120 ELSE last.index >= 121
     /\ (last.op = "Move.serialize" /\ last.from = "point" /\ last.index >= 0)
        => IF central THEN last.buf = <<last.index + 7>> /\ last.index + 7 <= 127
           ELSE Len(last.buf) > 1

\* The corner (5, 5) of the area was written as the byte 127 ...
C24_Witness ==
  /\ last.op = "Move.serialize" /\ last.pos = <<5, 5>>
  /\ last.index = 120 /\ last.buf = <<127>>

\* ... and the point (0, -6) next to the area, of index 121, as two bytes.
C24_WitnessOutside ==
  /\ last.op = "Move.serialize" /\ last.pos = <<0, -6>>
  /\ last.index = 121 /\ Len(last.buf) = 2

(***************************************************************************)
(* Two records and the objects they refer to.                              *)
(*                                                                         *)
(* A Record object holds references to a Map and to an array, and assign   *)
(* copies references.  Here rec is the pair of records a and b with the    *)
(* heap of the objects they refer to: rec.a and rec.b are                  *)
(* [map |-> ref, mov |-> ref, idx |-> n] and rec.heap maps a reference to  *)
(* the Map or the array it denotes.                                        *)
(***************************************************************************)
Names == {"a", "b"}

Other(x) == IF x = "a" THEN "b" ELSE "a"

\* A reference that no object of the heap has.
Fresh(h) == (CHOOSE n \in DOMAIN h : \A k \in DOMAIN h : k <= n) + 1

\* The fields of the record x, its Map and its array read through their
\* references.
Fields(s, x) ==
  [map |-> s.heap[s[x].map], mov |-> s.heap[s[x].mov], idx |-> s[x].idx]

\* The methods that change this.map and this.mov in place (map.set,
\* map.delete, mov.length = idx, mov.push) and set this.idx: the objects of
\* x take the contents r, whoever else refers to them.
Mutate(s, x, r) ==
  [s EXCEPT ![x].idx = r.idx,
            !.heap = [k \in DOMAIN s.heap |->
                        IF k = s[x].mov THEN r.mov
                        ELSE IF k = s[x].map THEN r.map
                        ELSE s.heap[k]]]

\* x.clear(): this.map = new Map(); this.mov = []; this.idx = 0
clear(s, x) ==
  LET m == Fresh(s.heap)
  IN [s EXCEPT ![x] = [map |-> m, mov |-> m + 1, idx |-> 0],
               !.heap = [k \in DOMAIN s.heap \cup {m, m + 1} |->
                           IF k = m THEN EmptyMap
                           ELSE IF k = m + 1 THEN <<>>
                           ELSE s.heap[k]]]

\* A slip of assign: the other record is not cleared.
assignNoClear(s, x, y) == [s EXCEPT ![x] = s[y]]

\* x.assign(y): this.map = other.map; this.mov = other.mov;
\* this.idx = other.idx; other.clear()
assign(s, x, y) == clear([s EXCEPT ![x] = s[y]], y)

\* The garbage collector: the objects that no record refers to are dropped,
\* and the references are numbered in the order a.map, a.mov, b.map, b.mov.
Collect(s) ==
  LET roots == <<s.a.map, s.a.mov, s.b.map, s.b.mov>>
      num(r) == CHOOSE k \in 1..4 : roots[k] = r /\ \A j \in 1..(k - 1) : roots[j] # r
  IN [a |-> [map |-> num(s.a.map), mov |-> num(s.a.mov), idx |-> s.a.idx],
      b |-> [map |-> num(s.b.map), mov |-> num(s.b.mov), idx |-> s.b.idx],
      heap |-> [k \in {num(roots[j]) : j \in 1..4} |-> s.heap[roots[k]]]]

\* The most recent call: its name, the record it was called on, its move,
\* what it returned, and whether an assign was called before it.
PairCall(op, on, move, ok, assigned) ==
  [op |-> op, on |-> on, move |-> move, ok |-> ok, assigned |-> assigned]

\* const a = new Record(), b = new Record()
InitAssign ==
  /\ rec = [a |-> [map |-> 1, mov |-> 2, idx |-> 0],
            b |-> [map |-> 3, mov |-> 4, idx |-> 0],
            heap |-> <<EmptyMap, <<>>, EmptyMap, <<>>>>]
  /\ last = PairCall("new", "a", NoMove, TRUE, FALSE)

\* x.makeMove(m)
MakeMoveOn(x, m) ==
  LET r == makeMove(Fields(rec, x), m)
  IN /\ rec' = Collect(Mutate(rec, x, r.rec))
     /\ last' = PairCall("makeMove", x, m, r.ok, last.assigned)

\* x.undoMove()
UndoMoveOn(x) ==
  LET r == undoMove(Fields(rec, x))
  IN /\ rec' = Collect(Mutate(rec, x, r.rec))
     /\ last' = PairCall("undoMove", x, NoMove, TRUE, last.assigned)

\* x.clear()
ClearOn(x) ==
  /\ rec' = Collect(clear(rec, x))
  /\ last' = PairCall("clear", x, NoMove, TRUE, last.assigned)

\* x.assign(y), y the other record
AssignTo(x) ==
  /\ rec' = Collect(assign(rec, x, Other(x)))
  /\ last' = PairCall("assign", x, NoMove, TRUE, TRUE)

\* The moves made on the two records.
SharedInputs == {StoneMove(<<a1>>), StoneMove(<<a3, a4>>), PassMove, DrawMove}

NextAssign ==
  \/ \E x \in Names, m \in SharedInputs : rec[x].idx < MaxShared /\ MakeMoveOn(x, m)
  \/ \E x \in Names : UndoMoveOn(x)
  \/ \E x \in Names : ClearOn(x)
  \/ \E x \in Names : AssignTo(x)

SpecAssign == InitAssign /\ [][NextAssign]_vars

\* C25: after a.assign(b) with a and b distinct records, a holds b's former
\* moves, cursor and occupied map and b is empty; the two records refer to
\* different maps and move lists, and a later call on one of them leaves the
\* moves, cursor and occupied map of the other unchanged.
C25_AssignMovesFields ==
  [][/\ last'.op = "assign"
        => /\ Fields(rec', last'.on) = Fields(rec, Other(last'.on))
           /\ Fields(rec', Other(last'.on)) = EmptyRecord
           /\ rec'.a.map # rec'.b.map
           /\ rec'.a.mov # rec'.b.mov
     /\ (last'.assigned /\ last'.op # "assign")
        => Fields(rec', Other(last'.on)) = Fields(rec, Other(last'.on))]_vars

\* After an assign, a second move was made on one record while the other
\* one was empty.
C25_Witness ==
  /\ last.op = "makeMove" /\ last.ok /\ last.assigned
  /\ Fields(rec, last.on).idx = 2
  /\ Fields(rec, Other(last.on)) = EmptyRecord

(***************************************************************************)
(* ServerMessage.decode.                                                   *)
(*                                                                         *)
(* Move.decode and Record.decode are Move.deserialize and                  *)
(* Record.deserialize above.                                               *)
(***************************************************************************)
MessageKindStart == 0
MessageKindJoin == 1
MessageKindPlace == 2
MessageKindPass == 3
MessageKindClaimWin == 4
MessageKindResign == 5
MessageKindStarted == 6
MessageKindRecord == 7
MessageKindMove == 8
MessageKindRetract == 9
MessageKindRequest == 10

\* Request.VALUES: Draw, Retract, Reset.
RequestVALUES == {0, 1, 2}

\* A field that a message of the kind does not have.
NoField == <<>>

\* A message: its kind and the fields of that kind.  The game ID is kept as
\* the bytes it is decoded from.
Message(kind, stone, gameId, record, move, request) ==
  [kind |-> kind, stone |-> stone, gameId |-> gameId, record |-> record,
   move |-> move, request |-> request]

\* decode throws err.
MessageThrown(err) ==
  [ok |-> FALSE, err |-> err,
   msg |-> Message(-1, NoStone, NoField, NoField, NoMove, -1), next |-> 0]

\* The switch has built msg and stands at byte i.
MessageBuilt(msg, i) == [ok |-> TRUE, err |-> "", msg |-> msg, next |-> i]

\* case MessageKind.Record, d the result of Record.decode(buf, i, false).
recordCase(kind, d, buf) ==
  IF ~d.ok THEN MessageThrown("record")
  ELSE MessageBuilt(Message(kind, NoStone, NoField, d.rec, NoMove, -1), Len(buf))

\* case MessageKind.Move, d the result of Move.decode(buf, i, false).
moveCase(kind, d) ==
  IF ~d.ok THEN MessageThrown(d.err)
  ELSE MessageBuilt(Message(kind, NoStone, NoField, NoField, d.move, -1), d.next)

\* The switch of decode on the kind byte: [ok, err, msg, next].
decodeSwitch(buf, lax) ==
  LET kind == buf[1]
  IN IF kind = MessageKindStarted
     THEN IF 1 >= Len(buf) THEN MessageThrown("empty payload")
          ELSE IF buf[2] # Black /\ buf[2] # White
          THEN MessageThrown("stone out of range")
          ELSE MessageBuilt(Message(kind, buf[2],
                                    IF 2 < Len(buf) THEN SubSeq(buf, 3, Len(buf))
                                    ELSE NoField,
                                    NoField, NoMove, -1),
                            IF 2 < Len(buf) THEN Len(buf) ELSE 2)
     ELSE IF kind = MessageKindRecord
     THEN recordCase(kind, deserialize(buf, 1, FALSE, lax), buf)
     ELSE IF kind = MessageKindMove
     THEN moveCase(kind, deserializeMove(buf, 1, FALSE, lax))
     ELSE IF kind = MessageKindRetract
     THEN MessageBuilt(Message(kind, NoStone, NoField, NoField, NoMove, -1), 1)
     ELSE IF kind = MessageKindRequest
     THEN IF 1 + 2 > Len(buf)
          THEN MessageThrown("expected request kind and stone")
          ELSE IF buf[2] \notin RequestVALUES
          THEN MessageThrown("unknown request kind")
          ELSE IF buf[3] # Black /\ buf[3] # White
          THEN MessageThrown("stone out of range")
          ELSE MessageBuilt(Message(kind, buf[3], NoField, NoField, NoMove, buf[2]),
                            1 + 2)
     ELSE MessageThrown("unknown message kind")

\* The end of decode, r the result of the switch:
\* if (i < buf.length) throw new RangeError('extra data'); return msg
decodeEnd(r, buf) ==
  IF r.ok /\ r.next < Len(buf) THEN MessageThrown("extra data") ELSE r

\* ServerMessage.decode(buf): [ok, err, msg, next]; ok is FALSE when it
\* throws err.
decode(buf, lax) ==
  IF 0 >= Len(buf) THEN MessageThrown("empty message")
  ELSE decodeEnd(decodeSwitch(buf, lax), buf)

\* The bytes of the buffers received after the kind byte: the stones, the
\* requests and the move tags, two stone positions, and a byte with the
\* continuation bit set.
MessageBytes == {0, 1, 2, 3, 7, 13, 128}

\* The buffers received: every kind byte, and the bytes after it.
MessageInputs ==
  {<<>>}
  \cup UNION {{<<k>> \o t : k \in 0..MaxKindByte, t \in [1..n -> MessageBytes]} :
                n \in 0..(MaxMessageLen - 1)}

\* A buffer received.
InitMessage ==
  /\ rec = EmptyRecord
  /\ last \in {[op |-> "new", buf |-> buf, lax |-> FALSE,
                  ret |-> MessageThrown("")] : buf \in MessageInputs}

\* ServerMessage.decode(buf)
Decode(lax) ==
  /\ last' = [op |-> "ServerMessage.decode", buf |-> last.buf, lax |-> lax,
               ret |-> decode(last.buf, lax)]
  /\ UNCHANGED rec

NextMessage == \E lax \in BOOLEAN : Decode(lax)

SpecMessage == InitMessage /\ [][NextMessage]_vars

\* The kinds of the messages of the server.
ServerKinds ==
  {MessageKindStarted, MessageKindRecord, MessageKindMove, MessageKindRetract,
   MessageKindRequest}

\* The bytes after the kind byte are the payload of the kind and nothing
\* more: a stone and any game ID; a record; one move; nothing; a request
\* and a stone.
ExactPayload(buf) ==
  LET kind == buf[1]
  IN /\ kind = MessageKindStarted => Len(buf) >= 2 /\ buf[2] \in {Black, White}
     /\ kind = MessageKindRecord => deserialize(buf, 1, FALSE, FALSE).ok
     /\ kind = MessageKindMove
        => LET d == deserializeMove(buf, 1, FALSE, FALSE)
           IN d.ok /\ d.next = Len(buf)
     /\ kind = MessageKindRetract => Len(buf) = 1
     /\ kind = MessageKindRequest
        => Len(buf) = 3 /\ buf[2] \in RequestVALUES /\ buf[3] \in {Black, White}

\* C26: ServerMessage.decode returns a message only for a buffer that is one
\* kind byte of Started, Record, Move, Retract or Request followed by
\* exactly the payload of that kind; it throws on an empty buffer, on any
\* other kind byte, on a missing payload and on bytes left after the
\* payload.
C26_ThrowsUnlessExact ==
  (last.op = "ServerMessage.decode" /\ last.ret.ok)
  => /\ last.buf # <<>>
     /\ last.buf[1] \in ServerKinds
     /\ last.ret.msg.kind = last.buf[1]
     /\ ExactPayload(last.buf)

\* The same for a varint decoder that throws at the end of the buffer.
C26_StrictThrowsUnlessExact ==
  (last.op = "ServerMessage.decode" /\ ~last.lax /\ last.ret.ok)
  => /\ last.buf # <<>>
     /\ last.buf[1] \in ServerKinds
     /\ last.ret.msg.kind = last.buf[1]
     /\ ExactPayload(last.buf)

(***************************************************************************)
(* The spiral index of the earlier Point: Point.Index and PointFromIndex   *)
(* of the server, Point.index and Point.fromIndex of the client.           *)
(***************************************************************************)
abs(n) == IF n < 0 THEN -n ELSE n

\* A slip of Index: t is decremented before the branches, not in the Right
\* branch alone.
IndexEarlyDecrement(p) ==
  IF p[1] = 0 /\ p[2] = 0 THEN 0
  ELSE LET xAbs == abs(p[1])
           yAbs == abs(p[2])
           vertical == xAbs > yAbs
           k == IF vertical THEN xAbs ELSE yAbs
           t == k * 2 - 1
       IN IF vertical
          THEN IF p[1] > 0 THEN t * t + p[2] + k - 1
               ELSE t * t + k - p[2]
          ELSE IF p[2] > 0 THEN t * t - t + k - p[1]
          ELSE t * t + t + p[1] + k

\* func (p Point) Index() int
Index(p) ==
  IF p[1] = 0 /\ p[2] = 0 THEN 0
  ELSE LET xAbs == abs(p[1])
           yAbs == abs(p[2])
           vertical == xAbs > yAbs
           k == IF vertical THEN xAbs ELSE yAbs
           t == k * 2
       IN IF vertical
          THEN IF p[1] > 0 THEN (t - 1) * (t - 1) + p[2] + k - 1
               ELSE t * t + k - p[2]
          ELSE IF p[2] > 0 THEN t * t - t + k - p[1]
          ELSE t * t + t + p[1] + k

RECURSIVE isqrtLoop(_, _, _)
\* for x1 < x0 { x0 = x1; x1 = (x0 + s/x0) >> 1 }; return x0
isqrtLoop(s, x0, x1) ==
  IF x1 < x0 THEN isqrtLoop(s, x1, (x1 + s \div x1) \div 2) ELSE x0

\* func isqrt(s uint) uint
isqrt(s) ==
  IF s <= 1 THEN s
  ELSE LET x0 == s \div 2
       IN isqrtLoop(s, x0, (x0 + s \div x0) \div 2)

\* func PointFromIndex(n int) Point
PointFromIndex(n) ==
  IF n = 0 THEN <<0, 0>>
  ELSE LET k == (isqrt(n) + 1) \div 2
           t == k * 2
           m == t * t + 1
       IN IF n < m
          THEN IF n < m - t THEN <<k, k + 1 - ((m - t) - n)>>
               ELSE <<k - 1 - (n - (m - t)), k>>
          ELSE IF n < m + t THEN <<-k, -k - 1 + ((m + t) - n)>>
               ELSE <<-k + 1 + (n - (m + t)), -k>>

\* Point.index() of the client
spiralIndex(p) ==
  IF p[1] = 0 /\ p[2] = 0 THEN 0
  ELSE LET xAbs == abs(p[1])
           yAbs == abs(p[2])
           vertical == xAbs > yAbs
           k == IF vertical THEN xAbs ELSE yAbs
           t == k * 2
       IN IF vertical
          THEN IF p[1] > 0 THEN (t - 1) * (t - 1) + p[2] + k - 1
               ELSE t * t + k - p[2]
          ELSE IF p[2] > 0 THEN t * t - t + k - p[1]
          ELSE t * t + t + p[1] + k

RECURSIVE spiralIsqrtLoop(_, _, _)
\* while (x1 < x0) { x0 = x1; x1 = (x0 + (s / x0) >>> 0) >>> 1; }: the sum
\* of x0 and the quotient is cut to an integer by >>> 0, then halved.
spiralIsqrtLoop(s, x0, x1) ==
  IF x1 < x0 THEN spiralIsqrtLoop(s, x1, (x1 + s \div x1) \div 2) ELSE x0

\* function isqrt(s: number) inside Point.fromIndex of the client
spiralIsqrt(s) ==
  IF s <= 1 THEN s
  ELSE LET x0 == s \div 2
       IN spiralIsqrtLoop(s, x0, (x0 + s \div x0) \div 2)

\* Point.fromIndex(n) of the client
spiralFromIndex(n) ==
  IF n = 0 THEN <<0, 0>>
  ELSE LET k == (spiralIsqrt(n) + 1) \div 2
           t == k * 2
           m == t * t + 1
       IN IF n < m
          THEN IF n < m - t THEN <<k, k + 1 - ((m - t) - n)>>
               ELSE <<k - 1 - (n - (m - t)), k>>
          ELSE IF n < m + t THEN <<-k, -k - 1 + ((m + t) - n)>>
               ELSE <<-k + 1 + (n - (m + t)), -k>>

\* p.Index() on the server
GoIndex ==
  /\ last.pos # NoPoint
  /\ last' = IndexCall("Point.Index", last.from, last.given, last.pos,
                        Index(last.pos), last.buf)
  /\ UNCHANGED rec

\* PointFromIndex(n) on the server
GoPointFromIndex ==
  /\ last.index >= 0
  /\ last' = IndexCall("PointFromIndex", last.from, last.given,
                        PointFromIndex(last.index), last.index, last.buf)
  /\ UNCHANGED rec

\* pos.index() on the client
SpiralIndex ==
  /\ last.pos # NoPoint
  /\ last' = IndexCall("Point.index", last.from, last.given, last.pos,
                        spiralIndex(last.pos), last.buf)
  /\ UNCHANGED rec

\* Point.fromIndex(n) on the client
SpiralFromIndex ==
  /\ last.index >= 0
  /\ last' = IndexCall("Point.fromIndex", last.from, last.given,
                        spiralFromIndex(last.index), last.index, last.buf)
  /\ UNCHANGED rec

NextSpiral ==
  \/ GoIndex
  \/ GoPointFromIndex
  \/ SpiralIndex
  \/ SpiralFromIndex

SpecSpiral == InitIndex /\ [][NextSpiral]_vars

\* The Chebyshev distance of p from the origin.
Ring(p) ==
  LET ax == IF p[1] < 0 THEN -p[1] ELSE p[1]
      ay == IF p[2] < 0 THEN -p[2] ELSE p[2]
  IN IF ax > ay THEN ax ELSE ay

\* C27: the spiral index of (0, 0) is 0; a point at Chebyshev distance
\* k >= 1 from the origin has an index of (2k-1)^2 .. (2k+1)^2 - 1;
\* PointFromIndex gives back the point that was indexed, and an index of
\* 0 .. MaxIndex is the index of the point it is turned into, on the server
\* and on the client, so that the 8k points of ring k take exactly the 8k
\* indices of that range.
C27_SpiralBijection ==
  /\ last.op \in {"Point.Index", "Point.index"}
     => LET k == Ring(last.pos)
        IN /\ k = 0 => last.index = 0
           /\ k >= 1 => /\ (2 * k - 1) * (2 * k - 1) <= last.index
                         /\ last.index <= (2 * k + 1) * (2 * k + 1) - 1
           /\ last.from = "index" => last.index = last.given
  /\ last.op \in {"PointFromIndex", "Point.fromIndex"}
     => /\ last.from = "point" => last.pos = last.given
        /\ last.index = 0 => last.pos = <<0, 0>>

\* The last index of ring 2, 24, was turned into the corner (2, -2) and
\* came back from it.
C27_Witness ==
  /\ last.op \in {"Point.Index", "Point.index"} /\ last.from = "index"
  /\ last.given = 24 /\ last.pos = <<2, -2>> /\ last.index = 24

(***************************************************************************)
(* The place of the ending move.                                           *)
(***************************************************************************)
\* C28: in every reachable record a Win, Draw or Resign move is the last
\* element of moves, and when the move at cursor-1 is one of them the cursor
\* is at the end of moves.
C28_EndingMoveIsLast ==
  /\ \A i \in 1..(Len(rec.mov) - 1) :
       rec.mov[i].kind \notin {KindWin, KindDraw, KindResign}
  /\ EndedAt(rec) => rec.idx = Len(rec.mov)

\* A Draw was made in place of the future moves of a record and ended it.
C28_Witness ==
  /\ last.op = "makeMove" /\ last.ok /\ last.hadFuture
  /\ last.move.kind = KindDraw
  /\ EndedAt(rec) /\ rec.idx >= 2

(***************************************************************************)
(* Stone moves that list one position twice.                               *)
(***************************************************************************)
\* The moves made: the stone moves played, two moves that list a position
\* twice, and a Pass.
PairInputs ==
  StoneInputs \cup {StoneMove(<<a2, a2>>), StoneMove(<<a5, a5>>), PassMove}

NextPair ==
  \/ \E m \in PairInputs : rec.idx < MaxPair /\ MakeMove(m)
  \/ UndoMove

SpecPair == Init /\ [][NextPair]_vars

\* C29: makeMove refuses a two-position Stone move whose two positions are
\* equal and leaves the record as it was, and the number of occupied
\* positions is the number of positions listed in the Stone moves of
\* moves[0..cursor).
C29_NoDoublePlacement ==
  [][/\ (/\ last'.op = "makeMove"
          /\ last'.move.kind = KindStone
          /\ Len(last'.move.pos) = 2
          /\ last'.move.pos[1] = last'.move.pos[2])
        => (~last'.ok /\ rec' = rec)
     /\ Cardinality(DOMAIN rec'.map) = Cardinality(Placements(rec'))]_vars

(***************************************************************************)
(* The earlier Game: the record with a makeMove that sets each stone as it *)
(* tests its position.  Its other methods are those of the record.         *)
(***************************************************************************)
RECURSIVE gamePlace(_, _, _)
\* for (let p of ps) { let i = p.index(); if (this.map.has(i)) return false;
\* this.map.set(i, stone); }: [ok, map], ok FALSE when it returns false.
gamePlace(map, ps, stone) ==
  IF ps = <<>> THEN [ok |-> TRUE, map |-> map]
  ELSE LET i == index(Head(ps))
       IN IF i \in DOMAIN map THEN [ok |-> FALSE, map |-> map]
          ELSE gamePlace(MapSet(map, i, stone), Tail(ps), stone)

\* Game.makeMove(move): [ok, rec], the return value and the game after the
\* call.
gameMakeMove(r, move) ==
  IF isEnded(r) THEN [ok |-> FALSE, rec |-> r]
  ELSE IF move.kind = KindStone
  THEN IF r.idx = 0 /\ Len(move.pos) # 1 THEN [ok |-> FALSE, rec |-> r]
       ELSE LET placed == gamePlace(r.map, move.pos, turn(r))
            IN IF ~placed.ok
               THEN [ok |-> FALSE, rec |-> [r EXCEPT !.map = placed.map]]
               ELSE [ok |-> TRUE, rec |-> pushMove(r, move, placed.map)]
  ELSE IF move.kind = KindWin /\ findWinRow(r, move.pos[1]) = NoRow
  THEN [ok |-> FALSE, rec |-> r]
  ELSE [ok |-> TRUE, rec |-> pushMove(r, move, r.map)]

\* game.makeMove(m)
GameMakeMove(m) ==
  LET r == gameMakeMove(rec, m)
  IN /\ rec' = r.rec
     /\ last' = Call("Game.makeMove", m, 0, <<>>, FALSE, FALSE, hasFuture(rec), r.ok, NoMove)

\* game.undoMove()
GameUndoMove ==
  LET r == undoMove(rec)
  IN /\ rec' = r.rec
     /\ last' = Call("Game.undoMove", NoMove, 0, <<>>, FALSE, FALSE, hasFuture(rec), TRUE, r.ret)

NextGame ==
  \/ \E m \in PairInputs : rec.idx < MaxPair /\ GameMakeMove(m)
  \/ GameUndoMove

SpecGame == Init /\ [][NextGame]_vars

\* C30: Game.makeMove of a two-position Stone move whose first position is
\* free and whose second position is occupied, or is the first one, returns
\* false and leaves the occupied map, the moves and the cursor unchanged.
C30_GameRejectsWhole ==
  [][(/\ last'.op = "Game.makeMove"
      /\ last'.move.kind = KindStone
      /\ Len(last'.move.pos) = 2
      /\ index(last'.move.pos[1]) \notin DOMAIN rec.map
      /\ \/ index(last'.move.pos[2]) \in DOMAIN rec.map
         \/ last'.move.pos[2] = last'.move.pos[1])
     => (~last'.ok /\ rec' = rec)]_vars

\* The part of the claim that the code keeps: such a move returns false and
\* the moves and the cursor are unchanged.
C30_GameRejectsKeepsMoves ==
  [][(/\ last'.op = "Game.makeMove"
      /\ last'.move.kind = KindStone
      /\ Len(last'.move.pos) = 2
      /\ rec.idx > 0 /\ ~EndedAt(rec)
      /\ index(last'.move.pos[1]) \notin DOMAIN rec.map
      /\ \/ index(last'.move.pos[2]) \in DOMAIN rec.map
         \/ last'.move.pos[2] = last'.move.pos[1])
     => /\ ~last'.ok
        /\ rec'.mov = rec.mov /\ rec'.idx = rec.idx
        /\ rec'.map = MapSet(rec.map, index(last'.move.pos[1]),
                             IF rec.idx % 2 = 0 THEN Black ELSE White)]_vars

(***************************************************************************)
(* Records saved with their future moves.                                  *)
(***************************************************************************)

\* Records made by makeMove and undoMove calls, saved with all their moves
\* and read back.
NextRestore ==
  \/ \E m \in MoveInputs : rec.idx < MaxKept /\ MakeMove(m)
  \/ UndoMove
  \/ \E lax \in BOOLEAN : Reload(lax)

SpecRestore == Init /\ [][NextRestore]_vars

\* C31: for a record R reached by makeMove and undoMove calls, with its move
\* index anywhere from 0 to the number of moves,
\* deserialize(serialize(R, true), true) does not throw and yields a record
\* with the moves of R (past and future), the move index of R and the
\* occupied map of R.
C31_RoundTripWithFuture ==
  [][last'.op = "reload"
     => /\ last'.ok
        /\ rec'.mov = rec.mov
        /\ rec'.idx = rec.idx
        /\ rec'.map = rec.map]_vars

\* A record with past stones and a future move was saved and read back.
C31_Witness ==
  /\ last.op = "reload" /\ last.ok /\ last.hadFuture
  /\ rec.idx > 0 /\ rec.idx < Len(rec.mov)
  /\ rec.mov[rec.idx + 1].kind = KindStone
  /\ rec.map # EmptyMap

\* A record undone to its start, every move in the future, was saved and
\* read back.
C31_WitnessAtStart ==
  /\ last.op = "reload" /\ last.ok
  /\ rec.idx = 0 /\ Len(rec.mov) >= 2

(***************************************************************************)
(* The server (src/server/hub.go) and the board it keeps (package game,    *)
(* the snapshot with 32-bit point indices).  A uint64 or uint32 is kept as *)
(* its groups of seven bits, the least significant group first, as the     *)
(* bytes of the varint carry them: the values reach 2^32 and more.         *)
(***************************************************************************)
MaxVarintLen64 == 10

RECURSIVE UvarintFrom(_, _, _)
\* The loop of binary.Uvarint at byte i, the groups x read before it.
UvarintFrom(buf, i, x) ==
  IF i >= Len(buf) THEN [x |-> <<>>, read |-> 0]
  ELSE IF i = MaxVarintLen64 THEN [x |-> <<>>, read |-> -(i + 1)]
  ELSE LET b == buf[i + 1]
       IN IF b < 128
          THEN IF i = MaxVarintLen64 - 1 /\ b > 1
               THEN [x |-> <<>>, read |-> -(i + 1)]
               ELSE [x |-> Append(x, b), read |-> i + 1]
          ELSE UvarintFrom(buf, i + 1, Append(x, b % 128))

\* binary.Uvarint: [x, read]; read is 0 when the buffer ends inside the
\* varint and negative when the value overflows 64 bits.
Uvarint(buf) == UvarintFrom(buf, 0, <<>>)

\* Bit k of x.
Bit(x, k) ==
  LET g == (k \div 7) + 1
  IN IF g > Len(x) THEN 0 ELSE (x[g] \div (2 ^ (k % 7))) % 2

\* A slip of the range test: values up to 0x1ffffffff pass.
AboveUint32ByOneBit(x) == \E k \in 33..(7 * Len(x)) : Bit(x, k) = 1

\* x > 0xffffffff
AboveUint32(x) == \E k \in 32..(7 * Len(x)) : Bit(x, k) = 1

RECURSIVE gatherFrom(_, _, _)
\* Bits shift, shift + 2, shift + 4, ... of the uint32 x from bit j of the
\* result on.
gatherFrom(x, shift, j) ==
  IF j > 15 THEN 0
  ELSE Bit(x, 2 * j + shift) * (2 ^ j) + gatherFrom(x, shift, j + 1)

\* gather(x >> shift): the even bits, packed into the low 16 bits.
gather(x, shift) == gatherFrom(x, shift, 0)

deinterleave(x) == <<gather(x, 0), gather(x, 1)>>

\* PointFromIndex(uint32(x))
PointFromIndex32(x) ==
  LET d == deinterleave(x)
  IN <<zigzagDecode(d[1]), zigzagDecode(d[2])>>

\* Stone.Opposite
Opposite(s) ==
  CASE s = Black -> White
    [] s = White -> Black
    [] OTHER -> NoStone

Axes == <<VerticalAxis, AscendingAxis, HorizontalAxis, DescendingAxis>>

\* A board is [board, moves, index]; a move is [Pos, Stone].
NewBoard == [board |-> EmptyMap, moves |-> <<>>, index |-> 0]

PastMoves(b) == SubSeq(b.moves, 1, b.index)

\* Board.Set: [ok, panic, b].
Set(b, p, stone) ==
  IF stone = NoStone THEN [ok |-> FALSE, panic |-> TRUE, b |-> b]
  ELSE IF index(p) \in DOMAIN b.board THEN [ok |-> FALSE, panic |-> FALSE, b |-> b]
  ELSE [ok |-> TRUE, panic |-> FALSE,
        b |-> [board |-> MapSet(b.board, index(p), stone),
               moves |-> Append(SubSeq(b.moves, 1, b.index),
                                [Pos |-> p, Stone |-> stone]),
               index |-> b.index + 1]]

\* Board.Unset: [ok, b]; ok is FALSE for nil.
Unset(b) ==
  IF b.index = 0 THEN [ok |-> FALSE, b |-> b]
  ELSE [ok |-> TRUE,
        b |-> [board |-> MapDelete(b.board, index(b.moves[b.index].Pos)),
               moves |-> b.moves,
               index |-> b.index - 1]]

RECURSIVE JumpForward(_, _, _, _)
\* for i := from; i < to; i++ { board[moves[i].Pos] = moves[i].Stone }
JumpForward(board, moves, from, to) ==
  IF from >= to THEN board
  ELSE JumpForward(MapSet(board, index(moves[from + 1].Pos), moves[from + 1].Stone),
                   moves, from + 1, to)

RECURSIVE JumpBackward(_, _, _, _)
\* for i := from; i >= to; i-- { delete(board, moves[i].Pos) }
JumpBackward(board, moves, from, to) ==
  IF from < to THEN board
  ELSE JumpBackward(MapDelete(board, index(moves[from + 1].Pos)), moves, from - 1, to)

\* Board.Jump
BoardJump(b, i) ==
  IF i > Len(b.moves) THEN b
  ELSE [board |-> IF b.index < i
                  THEN JumpForward(b.board, b.moves, b.index, i)
                  ELSE JumpBackward(b.board, b.moves, b.index - 1, i),
        moves |-> b.moves,
        index |-> i]

\* A slip of Board.InferTurn: the colour changes with every stone.
InferTurnAlternate(b) ==
  IF b.index = 0 THEN [stone |-> Black, more |-> TRUE]
  ELSE [stone |-> Opposite(b.moves[b.index].Stone), more |-> FALSE]

\* Board.InferTurn: [stone, more].
InferTurn(b) ==
  IF b.index = 0 THEN [stone |-> Black, more |-> TRUE]
  ELSE LET lastStone == b.moves[b.index].Stone
       IN IF b.index = 1 THEN [stone |-> White, more |-> lastStone = White]
          ELSE LET prevOfLast == b.moves[b.index - 1].Stone
               IN IF lastStone = prevOfLast
                  THEN [stone |-> Opposite(lastStone), more |-> FALSE]
                  ELSE [stone |-> lastStone, more |-> TRUE]

RECURSIVE BoardFindWinRowFromSeven(_, _, _)
\* A slip of the threshold: a run of six is not yet a win.
BoardFindWinRowFromSeven(b, p, k) ==
  IF k > Len(Axes) THEN NoRow
  ELSE LET row == BoardScanRow(b.board, p, Axes[k])
       IN IF row.len >= 7 THEN row ELSE BoardFindWinRowFromSeven(b, p, k + 1)

RECURSIVE BoardFindWinRowFrom(_, _, _)
\* for _, axis := range Axes, from the k-th axis on.
BoardFindWinRowFrom(b, p, k) ==
  IF k > Len(Axes) THEN NoRow
  ELSE LET row == BoardScanRow(b.board, p, Axes[k])
       IN IF row.len >= 6 THEN row ELSE BoardFindWinRowFrom(b, p, k + 1)

\* Board.FindWinRow: the row, or NoRow for nil.
BoardFindWinRow(b, p) ==
  IF Get(b.board, p) = NoStone THEN NoRow ELSE BoardFindWinRowFrom(b, p, 1)

\* h.board.Serialize(): the function is not among the sources; a response
\* is kept as the past moves of the board it is made from.
Serialize(b) == PastMoves(b)

\* The clients that connect, and the room of a client's send channel.
Clients == {"c1", "c2"}

\* The hub is [clients, board]; with it are kept each client's send channel
\* (the responses in its buffer and whether it is closed), the clients that
\* have sent themselves to h.register, and whether the hub goroutine has
\* panicked (a send on a closed channel, a second close).
newHub ==
  [clients |-> {}, board |-> NewBoard,
   send |-> [c \in Clients |-> <<>>],
   closed |-> [c \in Clients |-> FALSE],
   joined |-> {},
   panicked |-> FALSE]

\* case client := <-h.register
hubRegister(h, c) ==
  [h EXCEPT !.clients = h.clients \cup {c},
            !.joined = h.joined \cup {c},
            !.send[c] = IF h.closed[c] THEN h.send[c]
                        ELSE Append(h.send[c], Serialize(h.board)),
            !.panicked = h.closed[c]]

\* A slip of the unregister case: the channel is closed whether the client
\* is in the map or not.
hubUnregisterUnchecked(h, c) ==
  [h EXCEPT !.clients = h.clients \ {c},
            !.closed[c] = TRUE,
            !.panicked = h.closed[c]]

\* case client := <-h.unregister
hubUnregister(h, c) ==
  IF c \in h.clients
  THEN [h EXCEPT !.clients = h.clients \ {c},
                 !.closed[c] = TRUE,
                 !.panicked = h.closed[c]]
  ELSE h

\* The loop over h.clients at the end of handleMessage: the response goes
\* into the buffer of a client with room, a client without room is closed
\* and deleted.
offer(h, response) ==
  LET full(c) == Len(h.send[c]) >= SendCap
  IN [h EXCEPT
        !.send = [c \in Clients |->
                    IF c \in h.clients /\ ~h.closed[c] /\ ~full(c)
                    THEN Append(h.send[c], response) ELSE h.send[c]],
        !.closed = [c \in Clients |-> h.closed[c] \/ (c \in h.clients /\ full(c))],
        !.clients = {c \in h.clients : ~full(c)},
        !.panicked = \E c \in h.clients : h.closed[c]]

\* The placement branch of handleMessage after the varint is read: [ok, b].
place(b, x) ==
  LET p == PointFromIndex32(x)
      s == Set(b, p, InferTurn(b).stone)
  IN IF ~s.ok THEN [ok |-> FALSE, panic |-> s.panic, b |-> b]
     ELSE [ok |-> TRUE, panic |-> FALSE,
           b |-> IF BoardFindWinRow(s.b, p) # NoRow THEN BoardJump(s.b, 0) ELSE s.b]

\* The board part of handleMessage: [ok, panic, b]; ok is FALSE when the
\* function returns before the response is made.
apply(b, msg) ==
  IF Len(msg) = 0
  THEN LET u == Unset(b) IN [ok |-> u.ok, panic |-> FALSE, b |-> u.b]
  ELSE LET v == Uvarint(msg)
       IN IF v.read # Len(msg) \/ AboveUint32(v.x)
          THEN [ok |-> FALSE, panic |-> FALSE, b |-> b]
          ELSE place(b, v.x)

\* Hub.handleMessage: [ok, h].
handleMessage(h, msg) ==
  LET a == apply(h.board, msg)
  IN IF a.panic THEN [ok |-> FALSE, h |-> [h EXCEPT !.panicked = TRUE]]
     ELSE IF ~a.ok THEN [ok |-> FALSE, h |-> h]
     ELSE [ok |-> TRUE, h |-> offer([h EXCEPT !.board = a.b], Serialize(a.b))]

\* The most recent event of the hub: the client or the message received.
HubCall(op, client, msg, ok) == [op |-> op, client |-> client, msg |-> msg, ok |-> ok]

InitHub ==
  /\ rec = newHub
  /\ last = HubCall("newHub", "", <<>>, TRUE)

\* A client sends itself to h.register, once, when its connection is made.
Register(c) ==
  /\ ~rec.panicked /\ c \notin rec.joined
  /\ rec' = hubRegister(rec, c)
  /\ last' = HubCall("register", c, <<>>, TRUE)

\* A client sends itself to h.unregister.
Unregister(c) ==
  /\ ~rec.panicked
  /\ rec' = hubUnregister(rec, c)
  /\ last' = HubCall("unregister", c, <<>>, c \in rec.clients)

\* A message arrives on h.broadcast.
Broadcast(msg) ==
  /\ ~rec.panicked
  /\ LET r == handleMessage(rec, msg)
     IN /\ rec' = r.h
        /\ last' = HubCall("broadcast", "", msg, r.ok)

\* The client's writer takes the next response from its send channel.
Receive(c) ==
  /\ rec.send[c] # <<>>
  /\ rec' = [rec EXCEPT !.send[c] = Tail(rec.send[c])]
  /\ last' = HubCall("receive", c, <<>>, TRUE)

\* Messages: a retraction, the point (0, 0), a varint cut short, a byte
\* after the varint, the point (0, 0) in two bytes, and the values 2^28
\* (the point (8192, 0)) and 2^32.
HubMessages ==
  {<<>>, <<0>>, <<128>>, <<0, 0>>, <<128, 0>>,
   <<128, 128, 128, 128, 1>>, <<128, 128, 128, 128, 16>>}

NextHub ==
  \/ \E c \in Clients : Register(c)
  \/ \E c \in Clients : Unregister(c)
  \/ \E msg \in HubMessages : rec.board.index < MaxHubMoves /\ Broadcast(msg)
  \/ \E c \in Clients : Receive(c)

SpecHub == InitHub /\ [][NextHub]_vars

(***************************************************************************)
(* The hub with a game under way.                                          *)
(***************************************************************************)
RECURSIVE scatter(_)
\* The bits of x, each moved to twice its place.
scatter(x) == IF x = 0 THEN 0 ELSE (x % 2) + 4 * scatter(x \div 2)

interleave(x, y) == scatter(x) + 2 * scatter(y)

\* Point.Index
Index32(p) == interleave(zigzagEncode(p[1]), zigzagEncode(p[2]))

\* The message that places a stone at p.
PlaceMessage(p) == encodeVarint(Index32(p))

\* A game: Black fills (0, 0) .. (5, 0) with its sixth stone last, White
\* plays two rows of three.
HubGame ==
  <<<<0, 0>>, <<0, 2>>, <<1, 2>>, <<1, 0>>, <<2, 0>>, <<2, 2>>, <<0, 3>>,
    <<3, 0>>, <<4, 0>>, <<1, 3>>, <<2, 3>>, <<5, 0>>>>

RECURSIVE PlayedBoard(_)
\* The board after the messages of the first k moves of the game.
PlayedBoard(k) ==
  IF k = 0 THEN NewBoard
  ELSE apply(PlayedBoard(k - 1), PlaceMessage(HubGame[k])).b

\* The hub one stone short of the end of the game.
InitHubGame ==
  /\ rec = [newHub EXCEPT !.board = PlayedBoard(Len(HubGame) - 1)]
  /\ last = HubCall("newHub", "", <<>>, TRUE)

\* Messages: a retraction and the points (5, 0) and (6, 0).
GameMessages == {<<>>, PlaceMessage(<<5, 0>>), PlaceMessage(<<6, 0>>)}

\* The client that watches the game.
Watchers == {"c1"}

NextHubGame ==
  \/ \E c \in Watchers : Register(c)
  \/ \E msg \in GameMessages : rec.board.index < MaxGameMoves /\ Broadcast(msg)
  \/ \E c \in Watchers : Receive(c)

SpecHubGame == InitHubGame /\ [][NextHubGame]_vars

(***************************************************************************)
(* Properties of the hub.                                                  *)
(***************************************************************************)
\* C32: with each client registering at most once, under any interleaving
\* of register, unregister and broadcast events a client's send channel is
\* closed in exactly the steps that remove the client from the clients map
\* (so at most once: the hub never panics on a second close), and a
\* response is sent only to a client that is in the map and whose channel
\* is open.
C32_CloseOnceOnRemoval ==
  [][/\ ~rec'.panicked
     /\ \A c \in Clients :
          /\ (rec'.closed[c] # rec.closed[c])
               <=> (c \in rec.clients /\ c \notin rec'.clients)
          /\ rec.closed[c] => rec'.closed[c]
          /\ Len(rec'.send[c]) > Len(rec.send[c])
               => (c \in rec'.clients /\ ~rec.closed[c] /\ ~rec'.closed[c])]_vars

\* A broadcast dropped a client whose buffer was full and reached the
\* other, after which the dropped client unregistered.
C32_Witness ==
  /\ last.op = "unregister" /\ ~last.ok
  /\ rec.closed[last.client] /\ last.client \in rec.joined
  /\ \E c \in rec.clients : Len(rec.send[c]) = SendCap /\ rec.board.index > 0

\* The message is one whole varint and nothing more.
ExactlyOneVarint(msg) ==
  /\ Len(msg) >= 1 /\ Len(msg) <= MaxVarintLen64
  /\ msg[Len(msg)] < 128
  /\ \A k \in 1..(Len(msg) - 1) : msg[k] >= 128

\* The value of the varint is above 0xffffffff: its fifth group is above
\* 15 or a later group is not zero.
Over32(msg) ==
  \E k \in 5..Len(msg) : (msg[k] % 128) >= (IF k = 5 THEN 16 ELSE 1)

\* The message is one that the hub is to refuse on the board b.
Refused(b, msg) ==
  IF msg = <<>> THEN b.index = 0
  ELSE \/ ~ExactlyOneVarint(msg)
       \/ Over32(msg)
       \/ Get(b.board, PointFromIndex32(Uvarint(msg).x)) # NoStone

\* C33: handleMessage leaves the board unchanged and sends nothing when the
\* message is refused (a retraction with no past move, a message that is
\* not exactly one varint or whose value is above 0xffffffff, a placement
\* on an occupied point); for every other message the board changes and
\* its new serialization is offered to every client in the map: it goes
\* into the client's buffer, or the client has no room and is closed and
\* removed.
C33_RefusedOrBroadcast ==
  [][last'.op = "broadcast"
     => IF Refused(rec.board, last'.msg)
        THEN ~last'.ok /\ rec' = rec
        ELSE /\ last'.ok
             /\ rec'.board # rec.board
             /\ \A c \in rec.clients :
                  \/ /\ rec'.send[c] = Append(rec.send[c], Serialize(rec'.board))
                     /\ c \in rec'.clients
                  \/ /\ Len(rec.send[c]) >= SendCap
                     /\ rec'.send[c] = rec.send[c]
                     /\ c \notin rec'.clients /\ rec'.closed[c]]_vars

\* A placement with two clients in the map was accepted and both have the
\* new board in their buffers.
C33_Witness ==
  /\ last.op = "broadcast" /\ last.ok /\ last.msg # <<>>
  /\ rec.clients = Clients
  /\ \A c \in Clients : rec.send[c] = <<Serialize(rec.board)>>

\* A placement on an occupied point was refused with a client in the map.
C33_WitnessRefused ==
  /\ last.op = "broadcast" /\ ~last.ok /\ last.msg = <<128, 0>>
  /\ rec.board.index = 1 /\ rec.clients # {}

\* The colour of the past move with the 0-based number i.
ColourOf(i) ==
  IF i = 0 \/ ((i - 1) \div 2) % 2 = 1 THEN Black ELSE White

\* C34: with every stone placed in the colour returned by InferTurn, after
\* any accepted placements and retractions the past moves are coloured
\* Black, White, White, Black, Black, ...: the past move i (0-based) is
\* Black iff i = 0 or floor((i - 1) / 2) is odd.
C34_ColoursByIndex ==
  \A k \in 1..rec.board.index :
    /\ rec.board.moves[k].Stone = ColourOf(k - 1)
    /\ Get(rec.board.board, rec.board.moves[k].Pos) = ColourOf(k - 1)

\* After a retraction, a stone was placed off the game's line as the fifth
\* white stone of the history.
C34_Witness ==
  /\ last.op = "broadcast" /\ last.ok /\ last.msg # <<>>
  /\ rec.board.index = 10
  /\ rec.board.moves[10].Pos = <<6, 0>>
  /\ rec.board.moves[10].Stone = White

\* The board b with the stone of its next turn at the point of the message.
Placed(b, msg) ==
  [map |-> MapSet(b.board, index(PointFromIndex32(Uvarint(msg).x)),
                  ColourOf(b.index))]

\* The message is an accepted placement that completes a run of six or
\* more through its point.
Winning(b, msg) ==
  /\ msg # <<>> /\ ~Refused(b, msg)
  /\ SixThrough(Placed(b, msg), PointFromIndex32(Uvarint(msg).x))

\* C35: when an accepted placement completes a run of six or more stones
\* of one colour through the placed point, the board is reset before the
\* broadcast (move index 0, no stone on the board, the response that of
\* the empty board), and the next accepted placement is a Black stone that
\* starts a new history.
C35_WinResets ==
  [][last'.op = "broadcast"
     => /\ Winning(rec.board, last'.msg)
          => /\ last'.ok
             /\ rec'.board.index = 0 /\ rec'.board.board = EmptyMap
             /\ \A c \in rec'.clients :
                  rec'.send[c][Len(rec'.send[c])] = Serialize(NewBoard)
        /\ (rec.board.index = 0 /\ last'.ok)
          => /\ rec'.board.index = 1
             /\ rec'.board.moves =
                  <<[Pos |-> PointFromIndex32(Uvarint(last'.msg).x),
                     Stone |-> Black]>>
        /\ (last'.ok /\ last'.msg # <<>> /\ ~Winning(rec.board, last'.msg))
          => rec'.board.index = rec.board.index + 1]_vars

\* A run of seven was completed with a client in the map: the board is
\* empty with the won game in its future moves.
C35_Witness ==
  /\ last.op = "broadcast" /\ last.ok
  /\ last.msg = PlaceMessage(<<5, 0>>)
  /\ rec.board.index = 0 /\ Len(rec.board.moves) = 13
  /\ rec.clients # {}

\* After a win a Black stone started a new history.
C35_WitnessNewHistory ==
  /\ last.op = "broadcast" /\ last.ok
  /\ rec.board.index = 1 /\ Len(rec.board.moves) = 1
  /\ rec.board.moves[1].Stone = Black
  /\ \E c \in Clients : Len(rec.send[c]) > 0 /\ rec.send[c][1] = <<>>

(***************************************************************************)
(* The game view (src/client/src/components/GameView.vue): the record and  *)
(* the stone it is given, its cursor, its phantom and tentative stones and *)
(* the centre of the view.  NoPoint stands for `undefined`, NoStone for an *)
(* undefined ourStone.                                                     *)
(***************************************************************************)
viewSize == 15

\* Point.equal
equal(a, b) == a = b

outOfView(x, y) == x < 0 \/ x >= viewSize \/ y < 0 \/ y >= viewSize

\* boardToViewPos(p)[1]: whether the board position is out of view.
boardOut(v, p) ==
  outOfView(p[1] + (viewSize \div 2) - v.viewCenter[1],
            p[2] + (viewSize \div 2) - v.viewCenter[2])

ourTurn(v) == ~isEnded(v.record) /\ v.ourStone = turn(v.record)

\* What a call emits: sent is FALSE when nothing is emitted.
NoEmit == [sent |-> FALSE, pos |-> <<>>]
EmitMove(pos) == [sent |-> TRUE, pos |-> pos]

\* A slip of hitCursor: a hit on the phantom submits it with the tentative
\* stone even when the record has no past move.
hitCursorPastUnchecked(v) ==
  IF v.cursor = NoPoint \/ boardOut(v, v.cursor) THEN [v |-> v, emit |-> NoEmit]
  ELSE IF ~ourTurn(v) \/ stoneAt(v.record, v.cursor) # NoStone
  THEN [v |-> v, emit |-> NoEmit]
  ELSE IF equal(v.tentative, v.cursor)
  THEN [v |-> [v EXCEPT !.phantom = v.tentative, !.tentative = NoPoint],
        emit |-> NoEmit]
  ELSE IF equal(v.phantom, v.cursor)
  THEN IF v.tentative # NoPoint
       THEN [v |-> v, emit |-> EmitMove(<<v.tentative, v.cursor>>)]
       ELSE [v |-> [v EXCEPT !.tentative = v.phantom, !.phantom = NoPoint],
             emit |-> NoEmit]
  ELSE [v |-> [v EXCEPT !.phantom = v.cursor], emit |-> NoEmit]

\* hitCursor: [v, emit], the view after the call and the move emitted.
hitCursor(v) ==
  IF v.cursor = NoPoint \/ boardOut(v, v.cursor) THEN [v |-> v, emit |-> NoEmit]
  ELSE IF ~ourTurn(v) \/ stoneAt(v.record, v.cursor) # NoStone
  THEN [v |-> v, emit |-> NoEmit]
  ELSE IF equal(v.tentative, v.cursor)
  THEN [v |-> [v EXCEPT !.phantom = v.tentative, !.tentative = NoPoint],
        emit |-> NoEmit]
  ELSE IF equal(v.phantom, v.cursor)
  THEN IF ~hasPast(v.record)
       THEN [v |-> v, emit |-> EmitMove(<<v.cursor>>)]
       ELSE IF v.tentative # NoPoint
       THEN [v |-> v, emit |-> EmitMove(<<v.tentative, v.cursor>>)]
       ELSE [v |-> [v EXCEPT !.tentative = v.phantom, !.phantom = NoPoint],
             emit |-> NoEmit]
  ELSE [v |-> [v EXCEPT !.phantom = v.cursor], emit |-> NoEmit]

\* The callback of watch([record, () => ourStone]).
watchRecord(v) ==
  [v EXCEPT !.phantom = NoPoint, !.tentative = NoPoint,
            !.cursor = IF v.ourStone = NoStone THEN NoPoint ELSE v.cursor]

\* The most recent event of the view and what it emitted.
ViewCall(op, emit) == [op |-> op, emit |-> emit]

InitView ==
  /\ rec = [record |-> EmptyRecord, ourStone |-> NoStone, cursor |-> NoPoint,
            phantom |-> NoPoint, tentative |-> NoPoint, viewCenter |-> <<0, 0>>]
  /\ last = ViewCall("mounted", NoEmit)

\* Space or Enter with a cursor.
HitCursor ==
  /\ rec.cursor # NoPoint
  /\ LET h == hitCursor(rec)
     IN /\ rec' = h.v
        /\ last' = ViewCall("hitCursor", h.emit)

\* onPointerUp at the board position p, in view: the cursor is put there
\* and hit.
PointerUp(p) ==
  /\ ~boardOut(rec, p)
  /\ LET h == hitCursor([rec EXCEPT !.cursor = p])
     IN /\ rec' = h.v
        /\ last' = ViewCall("pointerUp", h.emit)

\* updateCursor: the pointer hovers at p, and out of view removes the cursor.
UpdateCursor(p) ==
  /\ rec' = [rec EXCEPT !.cursor = IF boardOut(rec, p) THEN NoPoint ELSE p]
  /\ last' = ViewCall("updateCursor", NoEmit)

\* followBoardPosOnDown: the view is dragged to the centre c.
Drag(c) ==
  /\ c # rec.viewCenter
  /\ rec' = [rec EXCEPT !.viewCenter = c]
  /\ last' = ViewCall("drag", NoEmit)

\* The parent makes a move on the record; the watcher runs when the record
\* has changed.
ViewMakeMove(m) ==
  LET r == makeMove(rec.record, m)
  IN /\ rec' = IF r.ok THEN watchRecord([rec EXCEPT !.record = r.rec]) ELSE rec
     /\ last' = ViewCall("makeMove", NoEmit)

\* The parent undoes a move on the record.
ViewUndoMove ==
  /\ hasPast(rec.record)
  /\ rec' = watchRecord([rec EXCEPT !.record = undoMove(rec.record).rec])
  /\ last' = ViewCall("undoMove", NoEmit)

\* The parent gives the view another stone.
SetOurStone(s) ==
  /\ s # rec.ourStone
  /\ rec' = watchRecord([rec EXCEPT !.ourStone = s])
  /\ last' = ViewCall("ourStone", NoEmit)

\* Positions in view, (7, 0) only with the view centred at (0, 0).
ViewPoints == {<<0, 0>>, <<1, 0>>, <<7, 0>>}
ViewCenters == {<<0, 0>>, <<-1, 0>>}
ViewMoves ==
  {StoneMove(<<<<0, 0>>>>), StoneMove(<<<<0, 0>>, <<1, 0>>>>),
   StoneMove(<<<<1, 0>>, <<7, 0>>>>), PassMove, DrawMove}

NextView ==
  \/ HitCursor
  \/ \E p \in ViewPoints : PointerUp(p)
  \/ \E p \in ViewPoints : UpdateCursor(p)
  \/ \E c \in ViewCenters : Drag(c)
  \/ \E m \in ViewMoves : rec.record.idx < MaxViewMoves /\ ViewMakeMove(m)
  \/ ViewUndoMove
  \/ \E s \in {NoStone, Black, White} : SetOurStone(s)

SpecView == InitView /\ [][NextView]_vars

\* C36: hitCursor emits a move only when the record is not ended, ourStone
\* is the stone of the record's turn and the cursor is on an unoccupied
\* position in view; the move has exactly one position, the cursor, when
\* the record has no past move, and otherwise exactly two distinct
\* positions, the tentative stone and the cursor.  A hit on a position
\* that is free of phantom and tentative stone only puts the phantom there,
\* and a hit on the phantom makes it the tentative stone or emits the move.
C36_HitCursorEmits ==
  [][last'.op \in {"hitCursor", "pointerUp"}
     => LET c == rec'.cursor
            open == /\ c # NoPoint /\ ~boardOut(rec, c)
                    /\ ~EndedAt(rec.record)
                    /\ rec.ourStone = turnAt(rec.record.idx)
                    /\ index(c) \notin DOMAIN rec.record.map
        IN /\ rec'.record = rec.record
           /\ last'.emit.sent
                => /\ open
                   /\ last'.emit.pos =
                        IF rec.record.idx = 0 THEN <<c>> ELSE <<rec.tentative, c>>
                   /\ rec.record.idx > 0 => (rec.tentative # NoPoint /\ rec.tentative # c)
                   /\ rec.phantom = c
           /\ (open /\ rec.phantom # c /\ rec.tentative # c)
                => /\ ~last'.emit.sent
                   /\ rec'.phantom = c /\ rec'.tentative = rec.tentative
           /\ (open /\ rec.phantom = c /\ rec.tentative # c)
                => \/ last'.emit.sent /\ rec'.phantom = c
                   \/ /\ ~last'.emit.sent
                      /\ rec'.tentative = c /\ rec'.phantom = NoPoint
                      /\ rec.tentative = NoPoint /\ rec.record.idx > 0]_vars

\* A move of two stones was emitted: the tentative stone and the cursor.
C36_Witness ==
  /\ last.op = "pointerUp" /\ last.emit.sent
  /\ Len(last.emit.pos) = 2
  /\ rec.tentative = last.emit.pos[1] /\ rec.cursor = last.emit.pos[2]
  /\ rec.record.idx > 0

\* The first move of a record was emitted with its one stone.
C36_WitnessFirst ==
  /\ last.op = "hitCursor" /\ last.emit.sent
  /\ last.emit.pos = <<rec.cursor>> /\ rec.record = EmptyRecord

(***************************************************************************)
(* The client application (src/client/src/App.vue).  Of its state are kept *)
(* the game ID, the WebSocket (its readyState, "none" for `undefined`),    *)
(* ourStone and the two requests (NoStone for `undefined`), the confirm    *)
(* request at hand and those pending, the dialogs (the modal dialogs that  *)
(* are open, in the order they were shown; the set openDialogs; each       *)
(* dialog's returnValue; the dialogs whose close event is yet to be        *)
(* handled) and the record.  A confirm request is kept as its action.      *)
(* What is only displayed (texts, the Alt key, the passcode) is left out.  *)
(* Local storage and the hash of the page are written by other pages too:  *)
(* the record that setGameId reads from them is an input, and save() is    *)
(* not kept.  `log` notes, for the handler that is running, the requests   *)
(* it made, the request whose confirmed() it ran, whether it called        *)
(* setGameId and whether it changed the record.                            *)
(***************************************************************************)
Dialogs ==
  {"main-menu", "online-menu", "join", "conn-closed", "game-menu", "confirm",
   "error"}

NoRequest == "none"
EmptyLog == [asked |-> <<>>, ran |-> NoRequest, gameIdSet |-> FALSE, touched |-> FALSE]

\* The dialog is open as a modal dialog.
isOpen(a, d) == \E k \in 1..Len(a.stack) : a.stack[k] = d

\* show(dialog): showModal leaves a dialog that is open as it is.
show(a, d) ==
  [a EXCEPT !.openDialogs = @ \cup {d},
            !.returnValue[d] = "",
            !.stack = IF isOpen(a, d) THEN @ ELSE Append(@, d)]

\* for (const dialog of openDialogs) dialog.close('game-id-changed'): a
\* dialog that is open is closed and its close event queued.
closeOpenDialogs(a) ==
  [a EXCEPT !.stack = SelectSeq(@, LAMBDA d : d \notin a.openDialogs),
            !.returnValue = [d \in Dialogs |->
                               IF d \in a.openDialogs /\ isOpen(a, d)
                               THEN "game-id-changed" ELSE @[d]],
            !.closing = @ \cup {d \in a.openDialogs : isOpen(a, d)}]

\* connect(initMsg)
connect(a) == [a EXCEPT !.ws = "connecting"]

\* send(msg)
send(a) == IF a.ws = "open" THEN a ELSE show(a, "error")

\* A slip of confirm: with a request at hand the new one takes its place.
confirmReplaces(a, action) ==
  show([a EXCEPT !.confirmRequest = action, !.log.asked = Append(@, action)],
       "confirm")

\* confirm(action, confirmed)
confirm(a, action) ==
  IF a.confirmRequest # NoRequest
  THEN [a EXCEPT !.pending = Append(@, action), !.log.asked = Append(@, action)]
  ELSE show([a EXCEPT !.confirmRequest = action, !.log.asked = Append(@, action)],
            "confirm")

confirmDraw(a) ==
  confirm(a, IF a.drawRequest # NoStone THEN "AcceptDraw" ELSE "OfferDraw")

confirmRetract(a) ==
  confirm(a, IF a.retractRequest # NoStone THEN "AcceptRetract" ELSE "RequestRetract")

\* The record is changed by a call that returns ok (makeMove) or that has
\* something to do (undoMove, redoMove, jump).
changeRecord(a, changed, r) ==
  IF changed THEN [a EXCEPT !.record = r, !.log.touched = TRUE] ELSE a

\* record.makeMove(move)
appMakeMove(a, move) ==
  changeRecord(a, makeMove(a.record, move).ok, makeMove(a.record, move).rec)

\* record.assign(other) and record.clear(): the fields are new objects.
appAssign(a, r) == changeRecord(a, TRUE, r)

\* The end of setGameId, after the requests are cleared.  loaded is the
\* record decoded from local storage or from the ID of an analyzed game,
\* [ok, rec]; ok is FALSE where local storage has no record and where the
\* ID is not decoded.
setGameIdOpen(a, id, loaded) ==
  IF id = "" THEN show(appAssign(a, EmptyRecord), "main-menu")
  ELSE IF id = "local"
  THEN IF loaded.ok THEN appAssign(a, loaded.rec) ELSE appAssign(a, EmptyRecord)
  ELSE IF id = "analyze"
  THEN IF loaded.ok THEN appAssign(a, loaded.rec) ELSE show(a, "error")
  ELSE IF id = "invalid" THEN show(a, "error")
  ELSE connect(a)

\* setGameId(id)
setGameId(a, id, loaded) ==
  setGameIdOpen(
    [closeOpenDialogs(a) EXCEPT !.ws = "none", !.gameId = id,
                                !.ourStone = NoStone,
                                !.retractRequest = NoStone,
                                !.drawRequest = NoStone,
                                !.log.gameIdSet = TRUE],
    id, loaded)

NotLoaded == [ok |-> FALSE, rec |-> EmptyRecord]

\* confirmRequest.value!.confirmed()
confirmed(a, action) ==
  IF action = "MainMenu" THEN setGameId(a, "", NotLoaded) ELSE send(a)

onSubmit(a, pos) ==
  IF a.ws # "none" THEN confirm(a, "Submit") ELSE appMakeMove(a, StoneMove(pos))

\* onPass, with the tentative stone of the view (NoPoint: none).
onPass(a, tentative) ==
  IF a.ws # "none"
  THEN confirm(a, IF tentative # NoPoint THEN "OneStoneMove" ELSE "Pass")
  ELSE appMakeMove(a, IF tentative # NoPoint THEN StoneMove(<<tentative>>)
                      ELSE PassMove)

onUndo(a) ==
  IF ~hasPast(a.record) THEN a
  ELSE IF a.ws # "none"
  THEN IF a.retractRequest # a.ourStone THEN confirmRetract(a) ELSE a
  ELSE changeRecord(a, TRUE, undoMove(a.record).rec)

onRedo(a) ==
  IF ~hasFuture(a.record) \/ a.ws # "none" THEN a
  ELSE changeRecord(a, TRUE, redoMove(a.record).rec)

onHome(a) ==
  IF ~hasPast(a.record) \/ a.ws # "none" THEN a
  ELSE changeRecord(a, TRUE, jump(a.record, 0).rec)

onEnd(a) ==
  IF ~hasFuture(a.record) \/ a.ws # "none" THEN a
  ELSE changeRecord(a, TRUE, jump(a.record, Len(a.record.mov)).rec)

onMenu(a) == show(a, "game-menu")

\* The game menu branch of onDialogClose.
gameMenuClosed(a, ret, tentative) ==
  CASE ret = "main-menu" ->
         IF a.ws # "none" THEN confirm(a, "MainMenu")
         ELSE setGameId(a, "", NotLoaded)
    [] ret = "join" -> show(a, "join")
    [] ret = "pass" -> onPass(a, tentative)
    [] ret = "draw" ->
         IF a.ws # "none" THEN confirmDraw(a) ELSE appMakeMove(a, DrawMove)
    [] ret = "resign" ->
         IF a.ws # "none" THEN confirm(a, "Resign")
         ELSE appMakeMove(a, ResignMove(turn(a.record)))
    [] ret = "undo" -> onUndo(a)
    [] ret = "redo" -> onRedo(a)
    [] ret = "home" -> onHome(a)
    [] ret = "end" -> onEnd(a)
    [] OTHER -> a

\* The end of the confirm dialog branch of onDialogClose:
\* if (confirmRequest.value = pendingConfirmRequests.shift()) show(...)
shiftPending(a) ==
  IF a.pending = <<>> THEN [a EXCEPT !.confirmRequest = NoRequest]
  ELSE show([a EXCEPT !.confirmRequest = Head(a.pending),
                      !.pending = Tail(a.pending)], "confirm")

\* The confirm dialog branch of onDialogClose.
confirmClosed(a, ret) ==
  IF ret = "confirm"
  THEN shiftPending(confirmed([a EXCEPT !.log.ran = a.confirmRequest],
                              a.confirmRequest))
  ELSE shiftPending(a)

\* onDialogClose after openDialogs.delete(dialog), for a return value other
\* than 'game-id-changed'.
dialogClosed(a, d, ret, tentative, loaded) ==
  CASE d = "main-menu" ->
         IF ret = "offline" \/ ret = "" THEN setGameId(a, "local", loaded)
         ELSE IF ret = "online" THEN show(a, "online-menu") ELSE a
    [] d = "online-menu" ->
         IF ret = "start" THEN connect(a)
         ELSE IF ret = "join" THEN setGameId(a, a.gameId, loaded)
         ELSE IF ret = "" THEN show(a, "main-menu") ELSE a
    [] d = "join" -> IF ret = "join" THEN send(a) ELSE a
    [] d = "conn-closed" ->
         IF ret = "retry" THEN setGameId(a, a.gameId, loaded)
         ELSE IF ret = "" THEN setGameId(a, "", NotLoaded) ELSE a
    [] d = "game-menu" -> gameMenuClosed(a, ret, tentative)
    [] d = "confirm" -> confirmClosed(a, ret)
    [] d = "error" -> setGameId(a, "", NotLoaded)

\* The close event of the dialog d is taken off the queue after
\* openDialogs.delete(dialog).  The return value of a dialog is read by
\* this handler alone and show() sets it anew, so that of a dialog that
\* stays closed is no longer kept.
closeHandled(a, d) ==
  [a EXCEPT !.openDialogs = @ \ {d}, !.closing = @ \ {d},
            !.returnValue[d] = ""]

\* onDialogClose for the close event of the dialog d.
onDialogClose(a, d, tentative, loaded) ==
  IF a.returnValue[d] = "game-id-changed" THEN closeHandled(a, d)
  ELSE dialogClosed(closeHandled(a, d), d, a.returnValue[d], tentative, loaded)

\* The Started case of onMessage.
startedShown(a, msg) ==
  IF msg.gameId # "" THEN show([a EXCEPT !.gameId = msg.gameId], "game-menu")
  ELSE a

startedDraw(a, msg) ==
  IF a.drawRequest = opposite(msg.stone) THEN confirmDraw(a) ELSE a

startedRetract(a, msg) ==
  IF a.retractRequest = opposite(msg.stone) THEN confirmRetract(a) ELSE a

startedMessage(a, msg) ==
  startedRetract(startedDraw(startedShown([a EXCEPT !.ourStone = msg.stone], msg),
                             msg), msg)

\* A slip of onMessage: Retract returns before the requests are cleared.
onMessageRetractReturns(a, msg) ==
  CASE msg.kind = "Malformed" -> [a EXCEPT !.ws = "closing"]
    [] msg.kind = "Started" -> startedMessage(a, msg)
    [] msg.kind = "Record" ->
         IF a.ourStone = NoStone THEN show(appAssign(a, msg.record), "join")
         ELSE appAssign(a, msg.record)
    [] msg.kind = "Move" ->
         [appMakeMove(a, msg.move) EXCEPT !.drawRequest = NoStone,
                                          !.retractRequest = NoStone]
    [] msg.kind = "Retract" ->
         changeRecord(a, hasPast(a.record), undoMove(a.record).rec)
    [] msg.kind = "RequestDraw" ->
         IF a.ourStone = opposite(msg.stone)
         THEN confirmDraw([a EXCEPT !.drawRequest = msg.stone])
         ELSE [a EXCEPT !.drawRequest = msg.stone]
    [] msg.kind = "RequestRetract" ->
         IF a.ourStone = opposite(msg.stone)
         THEN confirmRetract([a EXCEPT !.retractRequest = msg.stone])
         ELSE [a EXCEPT !.retractRequest = msg.stone]

\* onMessage(e) with the message that ServerMessage.decode returns, or
\* Malformed where it throws.
onMessage(a, msg) ==
  CASE msg.kind = "Malformed" -> [a EXCEPT !.ws = "closing"]
    [] msg.kind = "Started" -> startedMessage(a, msg)
    [] msg.kind = "Record" ->
         IF a.ourStone = NoStone THEN show(appAssign(a, msg.record), "join")
         ELSE appAssign(a, msg.record)
    [] msg.kind = "Move" ->
         [appMakeMove(a, msg.move) EXCEPT !.drawRequest = NoStone,
                                          !.retractRequest = NoStone]
    [] msg.kind = "Retract" ->
         [changeRecord(a, hasPast(a.record), undoMove(a.record).rec)
            EXCEPT !.drawRequest = NoStone, !.retractRequest = NoStone]
    [] msg.kind = "RequestDraw" ->
         IF a.ourStone = opposite(msg.stone)
         THEN confirmDraw([a EXCEPT !.drawRequest = msg.stone])
         ELSE [a EXCEPT !.drawRequest = msg.stone]
    [] msg.kind = "RequestRetract" ->
         IF a.ourStone = opposite(msg.stone)
         THEN confirmRetract([a EXCEPT !.retractRequest = msg.stone])
         ELSE [a EXCEPT !.retractRequest = msg.stone]

\* onConnClose(code, reason)
onConnClose(a) == show(a, "conn-closed")

\* The watcher of the record, run once after a handler that changed the
\* record.
watchAppRecord(a) ==
  IF a.log.touched /\ a.gameId # "" /\ a.ws = "none"
  THEN [a EXCEPT !.ourStone = turn(a.record)]
  ELSE a

\* The buttons of the game menu that are shown and not disabled.
gameMenuButton(a, ret) ==
  CASE ret \in {"", "main-menu"} -> TRUE
    [] ret = "join" -> a.ourStone = NoStone
    [] ret = "undo" ->
         /\ a.ourStone # NoStone /\ hasPast(a.record)
         /\ a.ws # "none" => a.retractRequest # a.ourStone
    [] ret = "home" -> a.ourStone # NoStone /\ a.ws = "none" /\ hasPast(a.record)
    [] ret \in {"redo", "end"} ->
         a.ourStone # NoStone /\ a.ws = "none" /\ hasFuture(a.record)
    [] ret \in {"claim-win", "resign"} ->
         a.ourStone # NoStone /\ ~isEnded(a.record)
    [] ret = "pass" ->
         a.ourStone # NoStone /\ ~isEnded(a.record) /\ a.ourStone = turn(a.record)
    [] ret = "draw" ->
         a.ourStone # NoStone /\ ~isEnded(a.record) /\ a.drawRequest # a.ourStone
    [] OTHER -> FALSE

\* The values a dialog is closed with by its buttons or the Escape key.
Buttons(d) ==
  CASE d = "main-menu" -> {"offline", "online", ""}
    [] d = "online-menu" -> {"start", "join", ""}
    [] d = "join" -> {"join", ""}
    [] d = "conn-closed" -> {"retry", ""}
    [] d = "game-menu" ->
         {"", "main-menu", "join", "undo", "redo", "home", "end", "claim-win",
          "resign", "pass", "draw"}
    [] d = "confirm" -> {"confirm", ""}
    [] d = "error" -> {""}

\* The call that led to the state: the handler, the dialog and its return
\* value or the kind of the message, and what the handler noted.
AppCall(op, d, ret, msg, log) ==
  [op |-> op, d |-> d, ret |-> ret, kind |-> msg.kind, asked |-> log.asked,
   ran |-> log.ran, gameIdSet |-> log.gameIdSet]

NoMessage == [kind |-> "None"]

\* A handler has run: the watcher runs and the call is noted.
AppStep(op, d, ret, msg, a) ==
  /\ rec' = [watchAppRecord(a) EXCEPT !.log = EmptyLog]
  /\ last' = AppCall(op, d, ret, msg, a.log)

\* The page is mounted with no hash: onHashChange calls setGameId('').
InitApp ==
  /\ rec = [setGameId([gameId |-> "", ws |-> "none", ourStone |-> NoStone,
                       drawRequest |-> NoStone, retractRequest |-> NoStone,
                       confirmRequest |-> NoRequest, pending |-> <<>>,
                       stack |-> <<>>, openDialogs |-> {},
                       returnValue |-> [d \in Dialogs |-> ""],
                       closing |-> {}, record |-> EmptyRecord,
                       log |-> EmptyLog],
                      "", NotLoaded)
              EXCEPT !.log = EmptyLog]
  /\ last = AppCall("mount", "", "", NoMessage, EmptyLog)

\* The game IDs: none, a local game, an analyzed record, an ID that is not
\* ten alphanumerics, an online game.
GameIds == {"", "local", "analyze", "invalid", "game"}

\* The records of analyzed games and of Record messages.
AppRecords == {EmptyRecord, makeMove(EmptyRecord, StoneMove(<<a1>>)).rec}

\* The close events that a handler queued are handled before any later
\* event.
Idle == rec.closing = {}

\* The events that no dialog holds back are raised while few dialogs are
\* open.
Calm == Idle /\ Len(rec.stack) < MaxOpen

\* What setGameId is given by local storage or by the ID.
Loads == {NotLoaded} \cup {[ok |-> TRUE, rec |-> r] : r \in AppRecords}

\* The hash of the page changes to another game ID.
HashChange(id, loaded) ==
  /\ Calm
  /\ id # rec.gameId
  /\ loaded.ok => id \in {"local", "analyze"}
  /\ AppStep("hashchange", "", "", NoMessage, setGameId(rec, id, loaded))

\* The user closes the topmost dialog with a button or the Escape key: the
\* dialog is closed and its close event queued.  The Join button of the
\* online menu needs a game ID in its field, which is bound to gameId.
UserClose(d, ret) ==
  /\ Idle
  /\ rec.stack # <<>> /\ rec.stack[Len(rec.stack)] = d
  /\ ret \in Buttons(d)
  /\ d = "game-menu" =>
       /\ gameMenuButton(rec, ret)
       /\ Len(rec.pending) < MaxPending
       /\ rec.ws = "none" /\ ret \in {"pass", "draw", "resign"} =>
            rec.record.idx < MaxAppMoves
  /\ rec' = [rec EXCEPT !.stack = SubSeq(@, 1, Len(@) - 1),
                        !.returnValue[d] = ret,
                        !.closing = @ \cup {d},
                        !.gameId = IF d = "online-menu" /\ ret = "join"
                                   THEN "game" ELSE @]
  /\ last' = AppCall("click", d, ret, NoMessage, EmptyLog)

\* The close event of a dialog.
DialogClose(d, tentative, loaded) ==
  /\ d \in rec.closing
  /\ tentative # NoPoint =>
       /\ d = "game-menu" /\ rec.returnValue[d] = "pass"
       /\ stoneAt(rec.record, tentative) = NoStone
  /\ loaded.ok =>
       /\ d \in {"main-menu", "conn-closed"}
       /\ rec.returnValue[d] \in {"offline", "", "retry"}
  /\ AppStep("close", d, rec.returnValue[d], NoMessage,
             onDialogClose(rec, d, tentative, loaded))

\* The game view is enabled (disabled is openDialogs.size != 0).
ViewEnabled == Calm /\ rec.openDialogs = {}

Menu == ViewEnabled /\ AppStep("menu", "", "", NoMessage, onMenu(rec))

Submit(pos) ==
  /\ ViewEnabled
  /\ ~isEnded(rec.record) /\ rec.ourStone = turn(rec.record)
  /\ rec.ws = "none" => rec.record.idx < MaxAppMoves
  /\ Len(rec.pending) < MaxPending
  /\ AppStep("submit", "", "", NoMessage, onSubmit(rec, pos))

Undo == ViewEnabled /\ hasPast(rec.record)
        /\ Len(rec.pending) < MaxPending
        /\ AppStep("undo", "", "", NoMessage, onUndo(rec))

Redo == ViewEnabled /\ hasFuture(rec.record)
        /\ AppStep("redo", "", "", NoMessage, onRedo(rec))

Home == ViewEnabled /\ hasPast(rec.record)
        /\ AppStep("home", "", "", NoMessage, onHome(rec))

End == ViewEnabled /\ hasFuture(rec.record)
       /\ AppStep("end", "", "", NoMessage, onEnd(rec))

\* ws.onopen: the first message is sent.
WsOpen ==
  /\ Calm
  /\ rec.ws = "connecting"
  /\ AppStep("open", "", "", NoMessage, send([rec EXCEPT !.ws = "open"]))

\* ws.onmessage
WsMessage(msg) ==
  /\ Calm
  /\ rec.ws = "open"
  /\ Len(rec.pending) < MaxPending
  /\ msg.kind = "Move" => rec.record.idx < MaxAppMoves
  /\ AppStep("message", "", "", msg, onMessage(rec, msg))

\* ws.onclose
WsClose ==
  /\ Calm
  /\ rec.ws \in {"connecting", "open", "closing"}
  /\ AppStep("connclose", "", "", NoMessage, onConnClose([rec EXCEPT !.ws = "closed"]))

AppMessages ==
  {[kind |-> "Malformed"], [kind |-> "Retract"]}
  \cup {[kind |-> "Started", stone |-> s, gameId |-> g] :
          s \in {Black, White}, g \in {"", "game"}}
  \cup {[kind |-> "Record", record |-> r] : r \in AppRecords}
  \cup {[kind |-> "Move", move |-> m] : m \in {PassMove}}
  \cup {[kind |-> k, stone |-> s] :
          k \in {"RequestDraw", "RequestRetract"}, s \in {Black}}

NextApp ==
  \/ \E id \in GameIds : \E loaded \in Loads : HashChange(id, loaded)
  \/ \E d \in Dialogs : \E ret \in Buttons(d) : UserClose(d, ret)
  \/ \E d \in Dialogs : \E tentative \in {NoPoint, a1} : \E loaded \in Loads :
       DialogClose(d, tentative, loaded)
  \/ Menu
  \/ \E pos \in {<<a1>>} : Submit(pos)
  \/ Undo
  \/ Redo
  \/ Home
  \/ End
  \/ WsOpen
  \/ \E msg \in AppMessages : WsMessage(msg)
  \/ WsClose

SpecApp == InitApp /\ [][NextApp]_vars

(***************************************************************************)
(* The confirm requests of the application.                                *)
(***************************************************************************)
\* The confirm request at hand followed by those pending.
Requests(a) ==
  IF a.confirmRequest = NoRequest THEN a.pending
  ELSE <<a.confirmRequest>> \o a.pending

\* The step handles a close event of the confirm dialog that the user
\* closed.
ConfirmClosing ==
  /\ "confirm" \in rec.closing /\ "confirm" \notin rec'.closing
  /\ rec.returnValue["confirm"] # "game-id-changed"

\* C37: there is one confirm request at hand and the others are pending
\* behind it: a handler that is not the close of the confirm dialog puts
\* the requests it makes at the end and takes none away; the close of the
\* confirm dialog takes the request at hand away, so that the oldest
\* pending one is at hand, and runs its confirmed() if and only if the
\* dialog was closed with 'confirm'; no other handler runs a confirmed().
C37_ConfirmQueue ==
  [][/\ rec'.pending # <<>> => rec'.confirmRequest # NoRequest
     /\ IF ConfirmClosing
        THEN /\ rec.confirmRequest # NoRequest
             /\ Requests(rec') = Tail(Requests(rec)) \o last'.asked
             /\ last'.ran = IF rec.returnValue["confirm"] = "confirm"
                            THEN rec.confirmRequest ELSE NoRequest
        ELSE /\ Requests(rec') = Requests(rec) \o last'.asked
             /\ last'.ran = NoRequest]_vars

\* The confirm dialog was closed with 'confirm', the confirmed() of the
\* request it showed has run and the request made after it is shown.
C37_Witness ==
  /\ last.op = "close" /\ last.d = "confirm" /\ last.ret = "confirm"
  /\ last.ran = "AcceptDraw"
  /\ rec.confirmRequest = "AcceptRetract" /\ rec.pending = <<>>
  /\ isOpen(rec, "confirm")

\* Two requests are pending behind the one at hand.
C37_WitnessPending ==
  /\ rec.confirmRequest # NoRequest /\ Len(rec.pending) = 2
  /\ last.asked # <<>>

\* C38: whenever a confirm request is at hand the confirm dialog is open, or
\* was closed by the user and its close event is about to be handled.
C38_CurrentIsShown ==
  rec.confirmRequest # NoRequest =>
    isOpen(rec, "confirm") \/ "confirm" \in rec.closing

\* C39: when onMessage has handled a Move or a Retract message, and when a
\* handler has called setGameId, drawRequest and retractRequest are both
\* undefined; a Started or a Record message leaves both as they were, and a
\* request message sets its own and leaves the other.
C39_RequestsCleared ==
  [][/\ last'.op = "message" /\ last'.kind \in {"Move", "Retract"} =>
          rec'.drawRequest = NoStone /\ rec'.retractRequest = NoStone
     /\ last'.gameIdSet =>
          rec'.drawRequest = NoStone /\ rec'.retractRequest = NoStone
     /\ last'.op = "message" /\ last'.kind \in {"Started", "Record"} =>
          /\ rec'.drawRequest = rec.drawRequest
          /\ rec'.retractRequest = rec.retractRequest
     /\ last'.op = "message" /\ last'.kind = "RequestDraw" =>
          /\ rec'.drawRequest # NoStone
          /\ rec'.retractRequest = rec.retractRequest
     /\ last'.op = "message" /\ last'.kind = "RequestRetract" =>
          /\ rec'.retractRequest # NoStone
          /\ rec'.drawRequest = rec.drawRequest]_vars

\* A Retract message has cleared the draw request that the confirm dialog
\* still asks to accept.
C39_Witness ==
  /\ last.op = "message" /\ last.kind = "Retract"
  /\ rec.confirmRequest = "AcceptDraw"
  /\ rec.drawRequest = NoStone /\ rec.retractRequest = NoStone

\* setGameId has cleared the retract request whose confirm request is
\* still at hand.
C39_WitnessGameId ==
  /\ last.gameIdSet
  /\ rec.confirmRequest = "AcceptRetract"
  /\ rec.drawRequest = NoStone /\ rec.retractRequest = NoStone

\* A Started message has left both requests set.
C39_WitnessKept ==
  /\ last.op = "message" /\ last.kind = "Started"
  /\ rec.drawRequest # NoStone /\ rec.retractRequest # NoStone

====
